---- MODULE Spec2Model ----
(***************************************************************************)
(* Streaming multipart/form-data parser of ovr (class Multipart).          *)
(*                                                                         *)
(* The request body is a byte sequence `wire` that the source hands over   *)
(* in non-empty chunks of any size; the source may also end early (a       *)
(* truncated body).  The parser state is the private fields of Multipart   *)
(* (#memory, #valid, #start, #end, #payloadSize), the position of the      *)
(* async generator (pc) and the body streams of the Parts yielded so far.  *)
(* One action is one stretch of code between two awaits of the source.     *)
(*                                                                         *)
(* Sizes are scaled down: the initial ArrayBuffer of 65 KiB is             *)
(* InitialCapacity bytes here, and the `memory` / `payload` / `parts`      *)
(* options are drawn from small values around the scenario's size.         *)
(***************************************************************************)
EXTENDS Integers, Sequences, FiniteSets, TLC

\* ------------------------------------------------------------------ bytes

CR == 13
LF == 10
DASH == 45

\* The boundary parameter of the Content-Type header ("XY").
Boundary == <<88, 89>>

\* memory[i] of a Uint8Array holding `mem` in [0, Len(mem)): undefined
\* (Undef) outside of it.
Undef == 0 - 1

At(mem, i) == IF i >= 0 /\ i < Len(mem) THEN mem[i + 1] ELSE Undef

Max(S) == CHOOSE x \in S : \A y \in S : y <= x

\* bytes [from, to) of a sequence, 0-based as Uint8Array.slice
Slice(s, from, to) == SubSeq(s, from + 1, to)

\* ----------------------------------------------------------------- Needle

\* a turn that writes the skip entry at the last position too
NeedleTurnAll(bytes, i, t) ==
  LET byte == bytes[i + 1]
      last == Len(bytes) - 1
  IN [skip |-> [t.skip EXCEPT ![byte] = (last - i) % 256],
      loc |-> [t.loc EXCEPT ![byte] = Append(@, i)]]

\* One turn of the constructor's loop on the tables t: skip[byte] = end - i
\* for i # end, stored in a Uint8Array slot (mod 256); loc[byte].push(i).
NeedleTurn(bytes, i, t) ==
  LET byte == bytes[i + 1]
      last == Len(bytes) - 1
  IN [skip |-> IF i # last
                 THEN [t.skip EXCEPT ![byte] = (last - i) % 256]
                 ELSE t.skip,
      loc |-> [t.loc EXCEPT ![byte] = Append(@, i)]]

\* the turns i, i + 1, ..., n - 1 of the loop, in this order.  The range is
\* halved and the tables are looked at before each half, which makes TLC
\* compute them turn by turn instead of all at the end.
RECURSIVE NeedleLoop(_, _, _, _)
NeedleLoop(bytes, i, n, t) ==
  IF n <= i \/ DOMAIN t = {} THEN t
  ELSE IF n = i + 1 THEN NeedleTurn(bytes, i, t)
  ELSE NeedleLoop(bytes, (i + n) \div 2, n,
                  NeedleLoop(bytes, i, (i + n) \div 2, t))

Needle(bytes) ==
  LET t == NeedleLoop(bytes, 0, Len(bytes),
                      [skip |-> [b \in 0..255 |-> Len(bytes) % 256],
                       loc |-> [b \in 0..255 |-> <<>>]])
  IN [bytes |-> bytes, length |-> Len(bytes), end |-> Len(bytes) - 1,
      skip |-> t.skip, loc |-> t.loc]

\* needle[i]
NeedleAt(needle, i) == At(needle.bytes, i)

\* a boundary parameter of 252 bytes ("X" repeated): the two needles made
\* from it are 256 bytes long
LongBoundary == [j \in 1..(256 - 4) |-> 88]

newLine == Needle(<<CR, LF, CR, LF>>)

\* `--${boundary}\r\n` and `\r\n--${boundary}` for the two boundaries
openingXY == Needle(<<DASH, DASH>> \o Boundary \o <<CR, LF>>)
boundaryXY == Needle(<<CR, LF, DASH, DASH>> \o Boundary)
openingLong == Needle(<<DASH, DASH>> \o LongBoundary \o <<CR, LF>>)
boundaryLong == Needle(<<CR, LF, DASH, DASH>> \o LongBoundary)

\* a part delimiter built from the boundary without its last byte
boundaryCut ==
  Needle(<<CR, LF, DASH, DASH>> \o SubSeq(Boundary, 1, Len(Boundary) - 1))

\* --------------------------------------------------- buffer operations

\* a #shift that moves the bytes from start on, the match with them
ShiftKeepsMatch(mem, s, e) ==
  [before |-> Slice(mem, 0, s),
   memory |-> Slice(mem, s, Len(mem)),
   start |-> 0, end |-> 0]

\* a #shift that leaves start and end where they were
ShiftStale(mem, s, e) ==
  [before |-> Slice(mem, 0, s),
   memory |-> Slice(mem, e, Len(mem)),
   start |-> s, end |-> e]

\* a #shift that hands out the matched bytes too: memory[0, end)
ShiftThrough(mem, s, e) ==
  [before |-> Slice(mem, 0, e),
   memory |-> Slice(mem, e, Len(mem)),
   start |-> 0, end |-> 0]

\* #shift: returns memory[0, start) and keeps memory[end, valid).
Shift(mem, s, e) ==
  [before |-> Slice(mem, 0, s),
   memory |-> Slice(mem, e, Len(mem)),
   start |-> 0, end |-> 0]

\* the inner for loop of #find and of the partial probe: needle[0..needleIndex]
\* equals the bytes of mem that end at cursor
MatchesBack(mem, needle, needleIndex, cursor) ==
  \A k \in 0..needleIndex :
    NeedleAt(needle, needleIndex - k) = At(mem, cursor - k)

\* the indices of mem that this comparison reads: from cursor down to the
\* first byte that differs, or to the one compared with needle[0]
Compared(mem, needle, needleIndex, cursor) ==
  LET miss == {k \in 0..needleIndex :
                 NeedleAt(needle, needleIndex - k) # At(mem, cursor - k)}
      n == IF miss = {} THEN needleIndex
           ELSE CHOOSE k \in miss : \A j \in miss : k <= j
  IN {cursor - k : k \in 0..n}

\* a #find that resumes after the bytes it has seen, without going back
NotFoundStartNoOverlap(needle, haystackLength) == haystackLength

\* where #find leaves start and end when the needle is not in the buffer
NotFoundStart(needle, haystackLength) ==
  IF needle.length < haystackLength
    THEN haystackLength - (needle.length - 1)
    ELSE 0

\* a turn of a loop that goes on while i <= haystackLength
FindTurnPast(mem, needle, c) ==
  LET seen == c.seen \union Compared(mem, needle, needle.end, c.i)
  IN IF c.i > Len(mem) THEN [c EXCEPT !.over = TRUE]
     ELSE IF MatchesBack(mem, needle, needle.end, c.i)
       THEN [c EXCEPT !.over = TRUE, !.found = TRUE, !.seen = seen]
     ELSE IF c.i = Len(mem) \/ needle.skip[At(mem, c.i)] = 0
       THEN [c EXCEPT !.over = TRUE, !.seen = seen]
       ELSE [c EXCEPT !.i = @ + needle.skip[At(mem, c.i)],
                      !.read = @ \union {At(mem, c.i)},
                      !.seen = seen]

\* one turn of the while loop of #find with the cursor at c.i: the loop is
\* over when the cursor is past the haystack or the needle ends at it;
\* c.read holds the bytes whose skip entry has moved the cursor, c.seen
\* the indices of mem that have been read;
\* when `i += skip[...]` adds 0 the cursor stays where it is and the loop
\* goes on for ever (spin)
FindTurn(mem, needle, c) ==
  LET seen == c.seen \union Compared(mem, needle, needle.end, c.i)
  IN IF c.i >= Len(mem) THEN [c EXCEPT !.over = TRUE]
     ELSE IF MatchesBack(mem, needle, needle.end, c.i)
       THEN [c EXCEPT !.over = TRUE, !.found = TRUE, !.seen = seen]
     ELSE IF needle.skip[At(mem, c.i)] = 0
       THEN [c EXCEPT !.over = TRUE, !.spin = TRUE, !.seen = seen]
       ELSE [c EXCEPT !.i = @ + needle.skip[At(mem, c.i)],
                      !.read = @ \union {At(mem, c.i)},
                      !.seen = seen]

\* the next n turns of the loop, or fewer when it is over before.  The
\* turns are taken in order; n is halved to keep the evaluation shallow,
\* and the state after the first half is bound as a value (h) so that it
\* is computed once.
RECURSIVE FindTurns(_, _, _, _)
FindTurns(mem, needle, c, n) ==
  IF c.over \/ n = 0 THEN c
  ELSE IF n = 1 THEN FindTurn(mem, needle, c)
  ELSE CHOOSE r \in { FindTurns(mem, needle, h, n - (n \div 2)) :
                        h \in {FindTurns(mem, needle, c, n \div 2)} } : TRUE

\* the while loop of #find, from cursor position i: a cursor that moves
\* passes the end of the haystack within Len(mem) turns
FindLoop(mem, needle, i) ==
  LET c == FindTurns(mem, needle,
                     [i |-> i, over |-> FALSE, found |-> FALSE,
                      spin |-> FALSE, read |-> {}, seen |-> {}],
                     Len(mem) + 1)
  IN [found |-> c.found, spin |-> c.spin,
      at |-> IF c.found THEN c.i - needle.end ELSE 0,
      read |-> c.read, seen |-> c.seen]

\* #find: on a match the buffer is shifted and the bytes before the match
\* are returned; otherwise start = end = the place to resume from.  When
\* the loop spins the call does not return and nothing is assigned.
Find(mem, s, needle) ==
  LET r == FindLoop(mem, needle, s + needle.end)
  IN IF r.found
       THEN [found |-> TRUE, spin |-> FALSE]
            @@ Shift(mem, r.at, r.at + needle.length)
     ELSE IF r.spin
       THEN [found |-> FALSE, spin |-> TRUE, before |-> <<>>,
             memory |-> mem, start |-> s, end |-> s]
       ELSE [found |-> FALSE, spin |-> FALSE, before |-> <<>>,
             memory |-> mem,
             start |-> NotFoundStart(needle, Len(mem)),
             end |-> NotFoundStart(needle, Len(mem))]

\* a probe that stops at the shortest suffix that is a prefix of the needle
ProbeShortest(mem, s, needle) ==
  LET lastIndex == Len(mem) - 1
      last == At(mem, lastIndex)
      needleIndices == IF last = Undef THEN <<>> ELSE needle.loc[last]
      hits == {i \in 1..Len(needleIndices) :
                 MatchesBack(mem, needle, needleIndices[i], lastIndex)}
  IN IF hits = {} THEN s
     ELSE lastIndex - needleIndices[CHOOSE i \in hits :
                                      \A h \in hits : i <= h]

\* a probe that holds nothing back: everything in the buffer is emitted
ProbeEnd(mem, s, needle) == Len(mem)

\* a pull without the probe: start stays where #find left it
ProbeSkipped(mem, s, needle) == s

\* the indices of mem that the probe reads: the last one, and what the
\* comparisons read, from the last index of the needle that holds that
\* byte down to the first one that gives a partial needle
ProbeSeen(mem, needle) ==
  LET lastIndex == Len(mem) - 1
      last == At(mem, lastIndex)
      needleIndices == IF last = Undef THEN <<>> ELSE needle.loc[last]
      hits == {i \in 1..Len(needleIndices) :
                 MatchesBack(mem, needle, needleIndices[i], lastIndex)}
      tried == {i \in 1..Len(needleIndices) :
                  hits = {} \/ i >= Max(hits)}
  IN {lastIndex} \union
     UNION {Compared(mem, needle, needleIndices[i], lastIndex) : i \in tried}

\* the partial-boundary probe of #findStream's pull: the new start, or s
\* when no suffix of the buffer is a prefix of the needle
Probe(mem, s, needle) ==
  LET lastIndex == Len(mem) - 1
      last == At(mem, lastIndex)
      needleIndices == IF last = Undef THEN <<>> ELSE needle.loc[last]
      hits == {i \in 1..Len(needleIndices) :
                 MatchesBack(mem, needle, needleIndices[i], lastIndex)}
  IN IF hits = {} THEN s ELSE lastIndex - needleIndices[Max(hits)]


\* ------------------------------------------------------------ scenarios

\* scaled size of the initial ArrayBuffer (65 KiB in the source)
InitialCapacity == 4

\* largest chunk the source hands over in one read
MaxChunk == 8

\* the `memory` and `payload` options when no limit is meant to be hit, and
\* the `parts` option when it is left at Infinity
Roomy == 64

CRLF == <<CR, LF>>
Delimiter == <<DASH, DASH>> \o Boundary

\* a part on the wire: header block, blank line, body, CRLF, delimiter
PartBytes(p) == p.hdr \o CRLF \o CRLF \o p.body \o CRLF \o Delimiter

RECURSIVE PartsBytes(_)
PartsBytes(ps) ==
  IF ps = <<>> THEN <<>>
  ELSE PartBytes(Head(ps))
       \o (IF Len(ps) > 1 THEN CRLF ELSE <<>>)
       \o PartsBytes(Tail(ps))

\* body = preamble? "--" B CRLF part ("--" B CRLF part)* "--" B "--" epilogue?
WireOf(pre, ps, epi) ==
  pre \o Delimiter \o CRLF \o PartsBytes(ps) \o <<DASH, DASH>> \o epi

P(h, b) == [hdr |-> h, body |-> b]

Body(pre, ps, epi) ==
  [pre |-> pre, parts |-> ps, epi |-> epi, wire |-> WireOf(pre, ps, epi)]

Options(m, p, n) == [memory |-> m, payload |-> p, parts |-> n]

\* one part "a"
Minimal == Body(<<>>, <<P(<<104>>, <<97>>)>>, <<>>)

\* content ending in CR LF "-", then a second part; CRLF as epilogue
FalsePrefix ==
  Body(<<>>, <<P(<<104>>, <<97, 13, 10, 45>>), P(<<103>>, <<97>>)>>, CRLF)

\* blank lines as preamble and as epilogue, an empty body, and a body
\* ending in a proper prefix of the delimiter
Framed ==
  Body(<<13, 10, 13, 10>>,
       <<P(<<104>>, <<>>), P(<<103>>, <<98, 13, 10, 45, 45>>)>>,
       <<13, 10, 13, 10>>)

\* a body that starts with a blank line
BlankLine ==
  Body(<<>>, <<P(<<104>>, <<13, 10, 13, 10, 97>>), P(<<103>>, <<97>>)>>,
       <<>>)

\* content holding CR LF "--" and a proper prefix of the boundary
Lookalike ==
  Body(<<>>, <<P(<<104>>, <<13, 10, 45, 45, 88, 97, 98>>)>>, <<>>)

\* one part and a blank line as epilogue
Trailer == Body(<<>>, <<P(<<104>>, <<97>>)>>, <<13, 10, 13, 10>>)

Bodies == {Minimal, FalsePrefix, Framed, BlankLine, Lookalike}

NoLimit == Options(Roomy, Roomy, Roomy)

\* no value: null or undefined
Null == <<"null">>

\* what the constructor looks at in the request: the media type of its
\* Content-Type header (Null when the header is absent), the boundary
\* parameter (Null when absent) and whether the request has a body
Req(t, b, hasBody) == [type |-> t, boundary |-> b, body |-> hasBody]

\* multipart/form-data; boundary=XY, with a body
Wellformed == Req(<<"multipart/", "form-data">>, Boundary, TRUE)

\* how the source cuts the body: any chunks up to MaxChunk bytes (and it
\* may end early), two chunks split at index `at`, or one-byte chunks
AnyCut == [kind |-> "any", at |-> 0]
SplitAt(j) == [kind |-> "split", at |-> j]
ByteCut == [kind |-> "bytes", at |-> 0]

Scenario(b, o) ==
  [body |-> b, options |-> o, request |-> Wellformed, cut |-> AnyCut]

\* requests the constructor has to refuse
BadRequests ==
  { r \in { Req(t, b, hasBody) :
              t \in {Null, <<"application/", "json">>, Wellformed.type},
              b \in {Null, <<>>, Boundary},
              hasBody \in BOOLEAN } :
      r # Wellformed /\ (r.type = Null => r.boundary = Null) }

\* every body without limits, some with a `memory`, `payload` or `parts`
\* option that the body reaches, and the requests that are refused
Scenarios ==
  { Scenario(b, NoLimit) : b \in Bodies }
  \union
  { Scenario(Minimal, Options(6, Roomy, Roomy)),
    Scenario(Minimal, Options(Roomy, Len(Minimal.wire), Roomy)),
    Scenario(Minimal, Options(Roomy, 12, Roomy)),
    Scenario(BlankLine, Options(Roomy, 16, Roomy)),
    Scenario(BlankLine, Options(8, Roomy, Roomy)),
    Scenario(BlankLine, Options(Roomy, Roomy, 1)),
    Scenario(Trailer, Options(Roomy, Roomy, 1)),
    Scenario(Trailer, Options(Roomy, Len(Trailer.wire) - 1, Roomy)) }
  \union
  { [Scenario(Minimal, NoLimit) EXCEPT !.request = r] : r \in BadRequests }

\* the content of FalsePrefix's first part, the three bytes it ends with,
\* and the index on the wire right after them
TrickyValue == FalsePrefix.parts[1].body
HeldBytes == <<CR, LF, DASH>>
TrickyEnd ==
  Len(Delimiter \o CRLF \o FalsePrefix.parts[1].hdr \o CRLF \o CRLF)
  + Len(TrickyValue)

\* the false-prefix body cut in two at every index (one of them is right
\* after the CR LF "-" that ends the first part's content), and in bytes
HeldScenarios ==
  { [Scenario(FalsePrefix, NoLimit) EXCEPT !.cut = c] :
      c \in {SplitAt(j) : j \in 1..(Len(FalsePrefix.wire) - 1)}
             \union {ByteCut} }

\* the minimal body cut in two at every index, and in single bytes
SplitScenarios ==
  { [Scenario(Minimal, NoLimit) EXCEPT !.cut = c] :
      c \in {SplitAt(j) : j \in 1..(Len(Minimal.wire) - 1)} \union {ByteCut} }

\* a field value of 256 bytes ("a" repeated)
Filler == [j \in 1..256 |-> 97]

\* one part that holds the field value, delimited by the long boundary
Long ==
  [pre |-> <<>>, parts |-> <<P(<<104>>, Filler)>>, epi |-> <<>>,
   wire |-> <<DASH, DASH>> \o LongBoundary \o CRLF
            \o <<104>> \o CRLF \o CRLF \o Filler \o CRLF
            \o <<DASH, DASH>> \o LongBoundary \o <<DASH, DASH>>]

\* multipart/form-data with the long boundary: the body in one chunk, and
\* in single bytes; `memory` and `payload` let the whole body in
LongScenarios ==
  { [body |-> Long,
     options |-> Options(Len(Long.wire), Len(Long.wire), Roomy),
     request |-> Req(Wellformed.type, LongBoundary, TRUE),
     cut |-> c] : c \in {SplitAt(Len(Long.wire)), ByteCut} }

\* header lines: the text of each is in the comment above it

\* Content-Disposition: form-data; name="n"
DispositionLine ==
  <<67, 111, 110, 116, 101, 110, 116, 45, 68, 105, 115, 112, 111, 115, 105,
    116, 105, 111, 110, 58, 32, 102, 111, 114, 109, 45, 100, 97, 116, 97,
    59, 32, 110, 97, 109, 101, 61, 34, 110, 34>>

\* Content-Type: t/p; c=u
TypeLine ==
  <<67, 111, 110, 116, 101, 110, 116, 45, 84, 121, 112, 101, 58, 32, 116,
    47, 112, 59, 32, 99, 61, 117>>

\* content-type:t/p ; c=u  (a space before the ";")
TypeSpacedLine ==
  <<99, 111, 110, 116, 101, 110, 116, 45, 116, 121, 112, 101, 58, 116, 47,
    112, 32, 59, 32, 99, 61, 117>>

\* Bad  (no colon)
NoColonLine ==
  <<66, 97, 100>>

\* X-A : v   (spaces around the name's end and the value)
SpacedLine ==
  <<88, 45, 65, 32, 58, 32, 118, 32>>

\* A B: v  (a name Headers rejects)
InvalidLine ==
  <<65, 32, 66, 58, 32, 118>>

HeaderLines ==
  {DispositionLine, TypeLine, TypeSpacedLine, NoColonLine, <<>>, SpacedLine,
   InvalidLine}

\* most lines in a header block
MaxLines == 3

\* the lines joined by CR LF
RECURSIVE Block(_)
Block(lines) ==
  IF Len(lines) = 0 THEN <<>>
  ELSE IF Len(lines) = 1 THEN lines[1]
  ELSE lines[1] \o CRLF \o Block(Tail(lines))

\* every header block of one to MaxLines of the lines; only the first line
\* may be empty, as an empty line after it would end the block
HeaderBlocks ==
  UNION { { Block(ls) : ls \in { l \in [1..n -> HeaderLines] :
                                   \A j \in 2..n : l[j] # <<>> } } :
          n \in 1..MaxLines }

\* one part "a" under each header block, the body in one chunk; `memory`
\* and `payload` let the whole body in
HeaderScenarios ==
  { [body |-> Body(<<>>, <<P(h, <<97>>)>>, <<>>),
     options |-> Options(Len(WireOf(<<>>, <<P(h, <<97>>)>>, <<>>)),
                         Len(WireOf(<<>>, <<P(h, <<97>>)>>, <<>>)), Roomy),
     request |-> Wellformed,
     cut |-> SplitAt(Len(WireOf(<<>>, <<P(h, <<97>>)>>, <<>>)))] :
      h \in HeaderBlocks }

\* the bodies whose chunks are planned, under either boundary
LiveScenarios == SplitScenarios \union HeldScenarios \union LongScenarios

\* ---------------------------------------------------------------- state

VARIABLES
  scenario,     \* the request: body bytes on the wire and the parser options
  pos,          \* bytes the source has handed over so far
  srcClosed,    \* the source has reported end-of-stream
  memory,       \* #memory[0, #valid): the live bytes of the buffer
  capacity,     \* #memory.buffer.byteLength
  valid,        \* #valid
  start,        \* #start
  end,          \* #end
  payloadSize,  \* #payloadSize
  pc,           \* where the async generator stands
  partIndex,    \* the generator's part counter i
  locked,       \* #reader holds the lock on the request body
  parts,        \* the Parts yielded so far, with their body streams
  pull,         \* index of the Part whose body pull is running, 0 if none
  raised,       \* the errors raised so far, in order
  run,          \* 1, or 2 once the same request has been parsed again
  first         \* what the first run delivered (<<>> during the first run)

vars == <<scenario, pos, srcClosed, memory, capacity, valid, start, end,
          payloadSize, pc, partIndex, locked, parts, pull, raised,
          run, first>>

wire == scenario.body.wire
options == scenario.options

\* this.#opening and this.#boundary, made by the constructor from the
\* boundary parameter of the request
opening ==
  IF scenario.request.boundary = LongBoundary THEN openingLong
                                              ELSE openingXY

boundary ==
  IF scenario.request.boundary = LongBoundary THEN boundaryLong
                                              ELSE boundaryXY

\* a request has arrived and `new Multipart(req, options)` is about to run
Arrived(S) ==
  /\ scenario \in S
  /\ pos = 0
  /\ srcClosed = FALSE
  /\ memory = <<>>
  /\ capacity = 0
  /\ valid = 0
  /\ start = 0
  /\ end = 0
  /\ payloadSize = 0
  /\ pc = "new"
  /\ partIndex = 0
  /\ locked = FALSE
  /\ parts = <<>>
  /\ pull = 0
  /\ raised = <<>>
  /\ run = 1
  /\ first = <<>>

Init == Arrived(Scenarios)

InitSplit == Arrived(SplitScenarios)

InitHeld == Arrived(HeldScenarios)

InitLive == Arrived(LiveScenarios)

InitHeaders == Arrived(HeaderScenarios)

\* ------------------------------------------------------------- #read

Min2(a, b) == IF a < b THEN a ELSE b
Max2(a, b) == IF a < b THEN b ELSE a

\* what one `await this.#reader.read()` can deliver: 0 for end-of-stream,
\* n > 0 for a chunk of the next n bytes
Deliverable ==
  IF ~locked \/ srcClosed \/ pos = Len(wire) THEN {0}
  ELSE IF scenario.cut.kind = "bytes" THEN {1}
  ELSE IF scenario.cut.kind = "split"
    THEN {IF pos < scenario.cut.at THEN scenario.cut.at - pos
                                   ELSE Len(wire) - pos}
  ELSE 0..Min2(MaxChunk, Len(wire) - pos)

\* a payload check that rejects a total equal to the option
OverPayloadInclusive(size) == size >= scenario.options.payload

\* `(this.#payloadSize += nextLength) > this.#options.payload`
OverPayload(size) == size > options.payload

\* a resize that forgets the `memory` option
ResizeUncapped(required, size) == Max2(required, size * 2)

\* the byte length #read resizes the buffer to when it is full
Resize(required, size) ==
  Min2(options.memory, Max2(required, size * 2))

\* a #read that compares before it adds: a chunk that is over the payload
\* option is not counted
ReadCheckFirst(n, append) ==
  LET chunk == Slice(wire, pos, pos + n)
      same == [done |-> FALSE, err |-> "none", memory |-> memory,
               capacity |-> capacity, payloadSize |-> payloadSize]
      size == payloadSize + n
      required == valid + n
      resized == IF required > capacity
                   THEN Resize(required, capacity)
                   ELSE capacity
  IN IF ~locked THEN [same EXCEPT !.err = "Released"]
     ELSE IF n = 0 THEN [same EXCEPT !.done = TRUE]
     ELSE IF OverPayload(size) THEN [same EXCEPT !.err = "PayloadLimit"]
     ELSE IF ~append THEN [same EXCEPT !.payloadSize = size]
     ELSE IF required > resized
       THEN [same EXCEPT !.err = "MemoryLimit", !.payloadSize = size,
                         !.capacity = resized]
     ELSE [same EXCEPT !.payloadSize = size, !.capacity = resized,
                       !.memory = memory \o chunk]

\* a #read that writes the chunk at the start of the buffer, over the
\* bytes that are there
ReadOver(n, append) ==
  LET chunk == Slice(wire, pos, pos + n)
      same == [done |-> FALSE, err |-> "none", memory |-> memory,
               capacity |-> capacity, payloadSize |-> payloadSize]
      size == payloadSize + n
  IN IF ~locked THEN [same EXCEPT !.err = "Released"]
     ELSE IF n = 0 THEN [same EXCEPT !.done = TRUE]
     ELSE IF OverPayload(size)
       THEN [same EXCEPT !.err = "PayloadLimit", !.payloadSize = size]
     ELSE IF ~append THEN [same EXCEPT !.payloadSize = size]
     ELSE IF n > Resize(n, capacity)
       THEN [same EXCEPT !.err = "MemoryLimit", !.payloadSize = size,
                         !.capacity = Resize(n, capacity)]
     ELSE [same EXCEPT !.payloadSize = size,
                       !.capacity = Max2(capacity, Resize(n, capacity)),
                       !.memory = chunk]

\* #read(append) when the reader delivers n bytes (n = 0: done)
Read(n, append) ==
  LET chunk == Slice(wire, pos, pos + n)
      same == [done |-> FALSE, err |-> "none", memory |-> memory,
               capacity |-> capacity, payloadSize |-> payloadSize]
      size == payloadSize + n
      required == valid + n
      resized == IF required > capacity
                   THEN Resize(required, capacity)
                   ELSE capacity
  IN IF ~locked THEN [same EXCEPT !.err = "Released"]
     ELSE IF n = 0 THEN [same EXCEPT !.done = TRUE]
     ELSE IF OverPayload(size)
       THEN [same EXCEPT !.err = "PayloadLimit", !.payloadSize = size]
     ELSE IF ~append THEN [same EXCEPT !.payloadSize = size]
     ELSE IF required > resized
       THEN [same EXCEPT !.err = "MemoryLimit", !.payloadSize = size,
                         !.capacity = resized]
     ELSE [same EXCEPT !.payloadSize = size, !.capacity = resized,
                       !.memory = memory \o chunk]

\* the source's side of a read
Source(n) ==
  /\ pos' = IF locked THEN pos + n ELSE pos
  /\ srcClosed' = (srcClosed \/ (locked /\ n = 0))


\* ----------------------------------------------------- the constructor

\* a type check that lets every media type through
StartsWithAny(type) == type # Null

\* `type?.startsWith("multipart/")`
StartsWithMultipart(type) == type # Null /\ Head(type) = "multipart/"

\* the constructor throws a TypeError: no reader, no buffer.  The errors
\* are named as in the specification: InvalidContentType is "Unsupported
\* Media Type", InvalidBoundary is "Boundary Not Found", NoRequestBody is
\* "No Request Body".
Reject(err) ==
  /\ pc' = "rejected"
  /\ raised' = Append(raised, err)
  /\ UNCHANGED <<capacity, locked>>

\* new Multipart(req, options): the checks of the Content-Type header, of
\* the boundary and of the body, then getReader() and the first ArrayBuffer
Construct ==
  /\ pc = "new"
  /\ LET req == scenario.request
     IN IF ~StartsWithMultipart(req.type)
          THEN Reject("InvalidContentType")
        ELSE IF req.boundary = Null \/ req.boundary = <<>>
          THEN Reject("InvalidBoundary")
        ELSE IF ~req.body
          THEN Reject("NoRequestBody")
        ELSE /\ pc' = "start"
             /\ locked' = TRUE
             /\ capacity' = InitialCapacity
             /\ UNCHANGED raised
  /\ UNCHANGED <<scenario, pos, srcClosed, memory, valid, start, end,
                 payloadSize, partIndex, parts, pull, run, first>>

\* ------------------------------------------------------ header text

\* Text is modelled by its UTF-8 bytes.
COLON == 58
SEMI == 59
EQUAL == 61
QUOTE == 34
PERCENT == 37
SPACE == 32
COMMA == 44

\* s.indexOf(b, from) and s.lastIndexOf(b, from) for a one-byte string b:
\* 0-based, -1 when b is not there
IndexOf(s, b, from) ==
  LET hits == {j \in Max2(from, 0)..(Len(s) - 1) : s[j + 1] = b}
  IN IF hits = {} THEN 0 - 1 ELSE CHOOSE j \in hits : \A h \in hits : j <= h

LastIndexOf(s, b, from) ==
  LET hits == {j \in 0..Min2(from, Len(s) - 1) : s[j + 1] = b}
  IN IF hits = {} THEN 0 - 1 ELSE Max(hits)

\* s.split("\r\n"): the pieces between the occurrences of CR LF
Split(s) ==
  LET seps == {j \in 0..(Len(s) - 2) : s[j + 1] = CR /\ s[j + 2] = LF}
      nth(k) == CHOOSE j \in seps : Cardinality({x \in seps : x < j}) = k - 1
  IN [k \in 1..(Cardinality(seps) + 1) |->
        Slice(s, IF k = 1 THEN 0 ELSE nth(k - 1) + 2,
                 IF k = Cardinality(seps) + 1 THEN Len(s) ELSE nth(k))]

\* white space of String.prototype.trim (the ASCII part of it), and of the
\* value normalisation of Headers (HTTP whitespace)
TrimSpace == {9, 10, 11, 12, 13, SPACE}
HttpSpace == {9, 10, 13, SPACE}

\* s without the leading and trailing bytes that are in ws
Strip(s, ws) ==
  LET keep == {j \in 1..Len(s) : s[j] \notin ws}
  IN IF keep = {} THEN <<>>
     ELSE SubSeq(s, CHOOSE j \in keep : \A h \in keep : j <= h, Max(keep))

\* s.trim()
Trim(s) == Strip(s, TrimSpace)

\* header names are compared in lower case
Lower(s) ==
  [j \in 1..Len(s) |-> IF s[j] >= 65 /\ s[j] <= 90 THEN s[j] + 32 ELSE s[j]]

\* a header name Headers accepts: a non-empty token
IsToken(s) ==
  /\ Len(s) > 0
  /\ \A j \in 1..Len(s) :
       /\ s[j] > SPACE
       /\ s[j] < 127
       /\ s[j] \notin {QUOTE, 40, 41, COMMA, 47, COLON, SEMI, 60, EQUAL, 62,
                       63, 64, 91, 92, 93, 123, 125}

\* a header value Headers accepts, once normalised: no NUL, CR or LF
IsValue(s) == \A j \in 1..Len(s) : s[j] \notin {0, CR, LF}

\* Codec.decode is a fatal UTF-8 decoder: header bytes of plain ASCII
\* decode to themselves (other bytes are not used in the header blocks)
Decodable(raw) == \A j \in 1..Len(raw) : raw[j] < 128

\* a headers array with a pair for every line: a line without a colon
\* gives its text as name, and an empty value
HeaderPairsLoose(rawHeaders) ==
  LET lines == Split(rawHeaders)
  IN [k \in 1..Len(lines) |->
        LET colon == IndexOf(lines[k], COLON, 0)
        IN IF colon = 0 - 1
             THEN [name |-> Trim(lines[k]), value |-> <<>>]
             ELSE [name |-> Trim(Slice(lines[k], 0, colon)),
                   value |-> Slice(lines[k], colon + 1, Len(lines[k]))]]

\* the headers array of the Part constructor: one [name, value] pair for
\* every line with a colon, in order
HeaderPairs(rawHeaders) ==
  LET lines == Split(rawHeaders)
      good == {j \in 1..Len(lines) : IndexOf(lines[j], COLON, 0) # 0 - 1}
      nth(k) == CHOOSE j \in good : Cardinality({x \in good : x < j}) = k - 1
  IN [k \in 1..Cardinality(good) |->
        LET line == lines[nth(k)]
            colon == IndexOf(line, COLON, 0)
        IN [name |-> Trim(Slice(line, 0, colon)),
            value |-> Slice(line, colon + 1, Len(line))]]

\* new Headers(pairs): names in lower case, values without the HTTP
\* whitespace around them
HeadersOf(pairs) ==
  [k \in 1..Len(pairs) |->
     [name |-> Lower(pairs[k].name),
      value |-> Strip(pairs[k].value, HttpSpace)]]

\* new Headers(pairs) throws a TypeError for a name or value it rejects
HeadersValid(pairs) ==
  \A k \in 1..Len(pairs) :
    IsToken(pairs[k].name) /\ IsValue(Strip(pairs[k].value, HttpSpace))

\* the values joined by ", "
RECURSIVE Joined(_)
Joined(values) ==
  IF Len(values) = 1 THEN values[1]
  ELSE values[1] \o <<COMMA, SPACE>> \o Joined(Tail(values))

\* null where a text may stand; a text there is wrapped: <<text>>
Absent == <<>>

\* headers.get(name): the values of the header, in order, joined by ", ";
\* null when there is none
Get(headers, name) ==
  LET at == {k \in 1..Len(headers) : headers[k].name = name}
      nth(k) == CHOOSE j \in at : Cardinality({x \in at : x < j}) = k - 1
  IN IF at = {} THEN Absent
     ELSE <<Joined([k \in 1..Cardinality(at) |-> headers[nth(k)].value])>>

ContentType == <<99, 111, 110, 116, 101, 110, 116, 45, 116, 121, 112, 101>>
ContentDisposition ==
  <<99, 111, 110, 116, 101, 110, 116, 45, 100, 105, 115, 112, 111, 115, 105,
    116, 105, 111, 110>>

\* Header.shift(header): the text before the first ";" and the rest from
\* the ";" on; the whole header and null without a ";"
HeaderShift(header) ==
  IF header # Absent /\ header[1] # <<>>
       /\ IndexOf(header[1], SEMI, 0) # 0 - 1
    THEN <<<<Slice(header[1], 0, IndexOf(header[1], SEMI, 0))>>,
           <<Slice(header[1], IndexOf(header[1], SEMI, 0), Len(header[1]))>>>>
    ELSE <<header, Absent>>

\* the value of a hexadecimal digit, -1 for any other byte
Hex(b) ==
  IF b >= 48 /\ b <= 57 THEN b - 48
  ELSE IF b >= 65 /\ b <= 70 THEN b - 55
  ELSE IF b >= 97 /\ b <= 102 THEN b - 87
  ELSE 0 - 1

\* the byte of the escape %XX at index j of s, -1 when there is none
EscapeAt(s, j) ==
  IF j + 2 < Len(s) /\ s[j + 1] = PERCENT
       /\ Hex(s[j + 2]) >= 0 /\ Hex(s[j + 3]) >= 0
    THEN 16 * Hex(s[j + 2]) + Hex(s[j + 3])
    ELSE 0 - 1

\* the number of bytes of the UTF-8 sequence a byte leads, 0 for a byte
\* that leads none
Width(b) ==
  IF b >= 0 /\ b < 128 THEN 1
  ELSE IF b >= 194 /\ b <= 223 THEN 2
  ELSE IF b >= 224 /\ b <= 239 THEN 3
  ELSE IF b >= 240 /\ b <= 244 THEN 4
  ELSE 0

\* b may be the k-th byte after the leading byte of a UTF-8 sequence
Follows(lead, k, b) ==
  /\ b >= (IF k = 1 /\ lead = 224 THEN 160
           ELSE IF k = 1 /\ lead = 240 THEN 144 ELSE 128)
  /\ b <= (IF k = 1 /\ lead = 237 THEN 159
           ELSE IF k = 1 /\ lead = 244 THEN 143 ELSE 191)

\* decodeURIComponent(s) from index j on, out being what is decoded so far:
\* every escape must be part of a well-formed UTF-8 sequence of escapes;
\* Absent when it throws
RECURSIVE DecodeFrom(_, _, _)
DecodeFrom(s, j, out) ==
  IF j >= Len(s) THEN <<out>>
  ELSE IF s[j + 1] # PERCENT THEN DecodeFrom(s, j + 1, Append(out, s[j + 1]))
  ELSE LET lead == EscapeAt(s, j)
           w == Width(lead)
       IN IF w > 0 /\ \A k \in 1..(w - 1) :
                        /\ EscapeAt(s, j + 3 * k) >= 0
                        /\ Follows(lead, k, EscapeAt(s, j + 3 * k))
            THEN DecodeFrom(s, j + 3 * w,
                            out \o [k \in 1..w |->
                                      EscapeAt(s, j + 3 * (k - 1))])
            ELSE Absent

\* the value of a parameter: trimmed, without its quotes, percent-decoded
\* when it holds a "%" and the decoding does not throw
ParamValue(text) ==
  LET value == Trim(text)
      bare == IF Len(value) > 0 /\ value[1] = QUOTE
                   /\ value[Len(value)] = QUOTE
                THEN Slice(value, 1, Len(value) - 1)
                ELSE value
  IN IF IndexOf(bare, PERCENT, 0) # 0 - 1
          /\ DecodeFrom(bare, 0, <<>>) # Absent
       THEN DecodeFrom(bare, 0, <<>>)[1]
       ELSE bare

\* the property names a plain object inherits from Object.prototype:
\* `key in parsed` is true for them before anything is set
InheritedKeys ==
  {
    \* constructor
    <<99, 111, 110, 115, 116, 114, 117, 99, 116, 111, 114>>,
    \* hasOwnProperty
    <<104, 97, 115, 79, 119, 110, 80, 114, 111, 112, 101, 114, 116, 121>>,
    \* isPrototypeOf
    <<105, 115, 80, 114, 111, 116, 111, 116, 121, 112, 101, 79, 102>>,
    \* propertyIsEnumerable
    <<112, 114, 111, 112, 101, 114, 116, 121, 73, 115, 69, 110, 117, 109,
      101, 114, 97, 98, 108, 101>>,
    \* toLocaleString
    <<116, 111, 76, 111, 99, 97, 108, 101, 83, 116, 114, 105, 110, 103>>,
    \* toString
    <<116, 111, 83, 116, 114, 105, 110, 103>>,
    \* valueOf
    <<118, 97, 108, 117, 101, 79, 102>>,
    \* __proto__
    <<95, 95, 112, 114, 111, 116, 111, 95, 95>>,
    \* __defineGetter__
    <<95, 95, 100, 101, 102, 105, 110, 101, 71, 101, 116, 116, 101, 114,
      95, 95>>,
    \* __defineSetter__
    <<95, 95, 100, 101, 102, 105, 110, 101, 83, 101, 116, 116, 101, 114,
      95, 95>>,
    \* __lookupGetter__
    <<95, 95, 108, 111, 111, 107, 117, 112, 71, 101, 116, 116, 101, 114,
      95, 95>>,
    \* __lookupSetter__
    <<95, 95, 108, 111, 111, 107, 117, 112, 83, 101, 116, 116, 101, 114,
      95, 95>>
  }

\* an `in` that looks at the pairs that were set only
InParsedOwn(parsed, key) == \E k \in 1..Len(parsed) : parsed[k].key = key

\* `key in parsed`
InParsed(parsed, key) ==
  key \in InheritedKeys \/ \E k \in 1..Len(parsed) : parsed[k].key = key

\* one turn of the for loop of Header.params with the cursor at `cursor`;
\* parsed is the sequence of the [key, value] pairs set so far; done when
\* the loop is left
ParamsTurn(header, cursor, parsed) ==
  LET equal == IndexOf(header, EQUAL, cursor)
      found == IndexOf(header, SEMI, cursor)
      semi == IF found = 0 - 1 THEN Len(header) ELSE found
      key == Trim(Slice(header, cursor, equal))
  IN IF cursor >= Len(header) \/ equal = 0 - 1
       THEN [done |-> TRUE, cursor |-> cursor, parsed |-> parsed]
     ELSE IF equal > semi
       THEN [done |-> FALSE,
             cursor |-> LastIndexOf(header, SEMI, equal - 1) + 1,
             parsed |-> parsed]
     ELSE IF InParsed(parsed, key)
       THEN [done |-> FALSE, cursor |-> semi + 1, parsed |-> parsed]
       ELSE [done |-> FALSE, cursor |-> semi + 1,
             parsed |->
               Append(parsed,
                      [key |-> key,
                       value |-> ParamValue(Slice(header, equal + 1, semi))])]

\* the loop of Header.params from a cursor on
RECURSIVE ParamsLoop(_, _, _)
ParamsLoop(header, cursor, parsed) ==
  CHOOSE r \in { IF t.done THEN parsed
                 ELSE ParamsLoop(header, t.cursor, t.parsed) :
                 t \in {ParamsTurn(header, cursor, parsed)} } : TRUE

\* Header.params(header): the key=value pairs of a header value
HeaderParams(header) ==
  IF header # Absent /\ header[1] # <<>>
    THEN ParamsLoop(header[1], 0, <<>>)
    ELSE <<>>

\* parsed[key], Absent when the key was never set
Param(parsed, key) ==
  IF \E k \in 1..Len(parsed) : parsed[k].key = key
    THEN <<parsed[CHOOSE k \in 1..Len(parsed) : parsed[k].key = key].value>>
    ELSE Absent

NameKey == <<110, 97, 109, 101>>
FilenameKey == <<102, 105, 108, 101, 110, 97, 109, 101>>

\* the Part constructor throws when the header bytes do not decode or
\* Headers rejects a name or a value
PartThrows(rawHeaders) ==
  ~Decodable(rawHeaders) \/ ~HeadersValid(HeaderPairs(rawHeaders))

\* ------------------------------------------------------- the generator

SetBuffer(mem, s, e) ==
  /\ memory' = mem
  /\ valid' = Len(mem)
  /\ start' = s
  /\ end' = e

\* the generator fails: the error is thrown out of next() and the finally
\* block releases the reader
Throw(err) ==
  /\ pc' = "error"
  /\ locked' = FALSE
  /\ raised' = Append(raised, err)

\* #find spins: the call never returns, and since it never awaits nothing
\* else of the program runs again
Hang ==
  /\ pc' = "spin"
  /\ UNCHANGED <<pos, srcClosed, memory, capacity, valid, start, end,
                 payloadSize, locked, raised>>

\* new Part(this, this.#findStream(this.#boundary), headers)
NewPart(headers) ==
  [headers |-> headers, state |-> "readable", used |-> FALSE,
   body |-> <<>>, chunks |-> 0, endedBy |-> "none", skipped |-> FALSE,
   abandoned |-> FALSE,
   fields |-> HeadersOf(HeaderPairs(headers)),
   type |-> HeaderShift(Get(HeadersOf(HeaderPairs(headers)),
                            ContentType))[1],
   name |-> Param(HeaderParams(Get(HeadersOf(HeaderPairs(headers)),
                                   ContentDisposition)), NameKey),
   filename |-> Param(HeaderParams(Get(HeadersOf(HeaderPairs(headers)),
                                       ContentDisposition)), FilenameKey)]

\* the indices of mem that the check after a part reads
PeekSeen(mem) ==
  IF Len(mem) > 1
    THEN IF At(mem, 0) = DASH THEN {0, 1} ELSE {0}
    ELSE {}

\* the check after a part: "--" at the head of the buffer ends the body
AfterPart(mem) ==
  IF Len(mem) > 1 /\ At(mem, 0) = DASH /\ At(mem, 1) = DASH
    THEN "epilogue"
    ELSE "headers"

\* first next(): the generator starts and searches for the opening delimiter
Begin ==
  /\ pc = "start"
  /\ pc' = "opening"
  /\ UNCHANGED <<scenario, pos, srcClosed, memory, capacity, valid, start,
                 end, payloadSize, partIndex, locked, parts, pull, raised,
                 run, first>>

\* one turn of #findConcat(this.#opening); its result is not looked at
SearchOpening ==
  /\ pc = "opening"
  /\ \E f \in {Find(memory, start, opening)} :
        IF f.spin THEN Hang
        ELSE IF f.found
          THEN /\ SetBuffer(f.memory, f.start, f.end)
               /\ pc' = "headers"
               /\ UNCHANGED <<pos, srcClosed, capacity, payloadSize, locked,
                              raised>>
          ELSE \E n \in Deliverable : \E r \in {Read(n, TRUE)} :
                    /\ Source(n)
                    /\ SetBuffer(r.memory, f.start, f.end)
                    /\ capacity' = r.capacity
                    /\ payloadSize' = r.payloadSize
                    /\ IF r.err # "none" THEN Throw(r.err)
                       ELSE /\ pc' = IF r.done THEN "headers" ELSE "opening"
                            /\ UNCHANGED <<locked, raised>>
  /\ UNCHANGED <<scenario, partIndex, parts, pull, run, first>>

\* one turn of #findConcat(Multipart.#newLine) in the for loop's condition
SearchHeaders ==
  /\ pc = "headers"
  /\ \E f \in {Find(memory, start, newLine)} :
        IF f.spin THEN Hang /\ UNCHANGED parts
        ELSE IF f.found
          THEN /\ SetBuffer(f.memory, f.start, f.end)
               /\ UNCHANGED <<pos, srcClosed, capacity, payloadSize>>
               /\ IF partIndex = options.parts
                    THEN Throw("PartLimit") /\ UNCHANGED parts
                    ELSE IF PartThrows(f.before)
                      THEN Throw("HeaderInvalid") /\ UNCHANGED parts
                      ELSE /\ parts' = Append(parts, NewPart(f.before))
                           /\ pc' = "yield"
                           /\ UNCHANGED <<locked, raised>>
          ELSE \E n \in Deliverable : \E r \in {Read(n, TRUE)} :
                    /\ Source(n)
                    /\ SetBuffer(r.memory, f.start, f.end)
                    /\ capacity' = r.capacity
                    /\ payloadSize' = r.payloadSize
                    /\ UNCHANGED parts
                    /\ IF r.err # "none" THEN Throw(r.err)
                       ELSE IF r.done
                         THEN /\ pc' = "done"
                              /\ locked' = FALSE
                              /\ UNCHANGED raised
                         ELSE UNCHANGED <<pc, locked, raised>>
  /\ UNCHANGED <<scenario, partIndex, pull, run, first>>

\* a generator that drains no body
UntouchedNever(part) == FALSE

\* `part.body && !part.bodyUsed`: nobody has read from the body or
\* cancelled it
Untouched(part) == ~part.used

\* the consumer has started on the body and has not read it to its end
Unfinished(part) ==
  part.used /\ ~(part.state = "closed" /\ part.endedBy # "cancel")

\* next() while the generator is suspended at the yield: an untouched body
\* is drained, then the buffer is checked for the closing "--"
Advance ==
  /\ pc = "yield"
  /\ pull = 0
  /\ LET k == Len(parts)
         part == parts[k]
     IN IF Untouched(part)
          THEN /\ pc' = "drain"
               /\ pull' = k
               /\ parts' = [parts EXCEPT ![k].used = TRUE,
                                         ![k].skipped = TRUE]
               /\ UNCHANGED partIndex
          ELSE /\ pc' = AfterPart(memory)
               /\ partIndex' = IF AfterPart(memory) = "headers"
                                  THEN partIndex + 1
                                  ELSE partIndex
               /\ parts' = [parts EXCEPT ![k].abandoned = Unfinished(part),
                                         ![k].skipped = ~part.used]
               /\ UNCHANGED pull
  /\ UNCHANGED <<scenario, pos, srcClosed, memory, capacity, valid, start,
                 end, payloadSize, locked, raised, run, first>>

\* the consumer gives the iterator up: return() on a generator suspended
\* at the yield runs the finally block, on one that was never started it
\* runs nothing
Return ==
  /\ pc \in {"start", "yield"}
  /\ pull = 0
  /\ pc' = "returned"
  /\ locked' = IF pc = "yield" THEN FALSE ELSE locked
  /\ UNCHANGED <<scenario, pos, srcClosed, memory, capacity, valid, start,
                 end, payloadSize, partIndex, parts, pull, raised, run,
                 first>>

\* an epilogue drain that reads and discards without counting the bytes
DrainEpilogueUncounted ==
  /\ pc = "epilogue"
  /\ \E n \in Deliverable :
       /\ Source(n)
       /\ IF n = 0
            THEN pc' = "done" /\ locked' = FALSE
            ELSE UNCHANGED <<pc, locked>>
  /\ UNCHANGED <<scenario, memory, capacity, valid, start, end, payloadSize,
                 partIndex, parts, pull, raised, run, first>>

\* one turn of `while (!(await this.#read(false)))`
DrainEpilogue ==
  /\ pc = "epilogue"
  /\ \E n \in Deliverable : \E r \in {Read(n, FALSE)} :
          /\ Source(n)
          /\ payloadSize' = r.payloadSize
          /\ IF r.err # "none" THEN Throw(r.err)
             ELSE IF r.done
               THEN /\ pc' = "done"
                    /\ locked' = FALSE
                    /\ UNCHANGED raised
               ELSE UNCHANGED <<pc, locked, raised>>
  /\ UNCHANGED <<scenario, memory, capacity, valid, start, end, partIndex,
                 parts, pull, run, first>>

\* ------------------------------------------------------ body streams

\* an enqueue that hands every byte over as a chunk of its own
EnqueueBytewise(ps, k, bytes) ==
  [ps EXCEPT ![k].body = @ \o bytes, ![k].chunks = @ + Len(bytes)]

\* controller.enqueue(bytes) on the stream of part k
Enqueue(ps, k, bytes) ==
  [ps EXCEPT ![k].body = @ \o bytes, ![k].chunks = @ + 1]

\* controller.close()
Close(ps, k, why) ==
  [ps EXCEPT ![k].state = "closed", ![k].endedBy = why]

\* the consumer reads from the body of part k: the stream calls pull
ReadBody(k) ==
  /\ pull = 0
  /\ pc \in {"yield", "done", "error", "returned"}
  /\ parts[k].state = "readable"
  /\ pull' = k
  /\ parts' = [parts EXCEPT ![k].used = TRUE]
  /\ UNCHANGED <<scenario, pos, srcClosed, memory, capacity, valid, start,
                 end, payloadSize, pc, partIndex, locked, raised, run,
                 first>>

\* the consumer cancels the body of part k
CancelBody(k) ==
  /\ pull = 0
  /\ pc \in {"yield", "done", "error", "returned"}
  /\ parts[k].state = "readable"
  /\ parts' = [Close(parts, k, "cancel") EXCEPT ![k].used = TRUE]
  /\ UNCHANGED <<scenario, pos, srcClosed, memory, capacity, valid, start,
                 end, payloadSize, pc, partIndex, locked, pull, raised,
                 run, first>>

\* the pull has settled the pending read of part k: the consumer goes on,
\* or the generator's drain loop does
Settled(k, ps, mem) ==
  IF pc = "drain"
    THEN IF ps[k].state = "closed"
           THEN /\ pull' = 0
                /\ pc' = AfterPart(mem)
                /\ partIndex' = IF AfterPart(mem) = "headers"
                                   THEN partIndex + 1
                                   ELSE partIndex
           ELSE /\ pull' = k
                /\ UNCHANGED <<pc, partIndex>>
    ELSE /\ pull' = 0
         /\ UNCHANGED <<pc, partIndex>>

\* one turn of the for loop in the pull of #findStream(this.#boundary)
Pull ==
  /\ pull # 0
  /\ pc # "spin"
  /\ \E k \in {pull}, f \in {Find(memory, start, boundary)} :
     \E s \in {Shift(f.memory, Probe(f.memory, f.start, boundary),
                     Probe(f.memory, f.start, boundary))} :
        IF f.spin THEN Hang /\ UNCHANGED <<parts, pull, partIndex>>
        ELSE IF f.found
          THEN /\ SetBuffer(f.memory, f.start, f.end)
               /\ parts' = Close(IF f.before # <<>>
                                   THEN Enqueue(parts, k, f.before)
                                   ELSE parts, k, "match")
               /\ Settled(k, parts', f.memory)
               /\ UNCHANGED <<pos, srcClosed, capacity, payloadSize, locked,
                              raised>>
        ELSE IF s.before # <<>>
          THEN /\ SetBuffer(s.memory, s.start, s.end)
               /\ parts' = Enqueue(parts, k, s.before)
               /\ Settled(k, parts', s.memory)
               /\ UNCHANGED <<pos, srcClosed, capacity, payloadSize, locked,
                              raised>>
        ELSE \E n \in Deliverable : \E r \in {Read(n, TRUE)} :
               \* after done the loop's condition runs #find once more
               \E g \in {Find(r.memory, s.start, boundary)} :
                  /\ Source(n)
                  /\ capacity' = r.capacity
                  /\ payloadSize' = r.payloadSize
                  /\ IF r.err # "none"
                       THEN /\ SetBuffer(r.memory, s.start, s.end)
                            /\ parts' = [parts EXCEPT ![k].state = "errored"]
                            /\ pull' = 0
                            /\ UNCHANGED partIndex
                            /\ IF pc = "drain" THEN Throw(r.err)
                               ELSE /\ raised' = Append(raised, r.err)
                                    /\ UNCHANGED <<pc, locked>>
                     ELSE IF r.done /\ g.spin
                       THEN /\ pc' = "spin"
                            /\ SetBuffer(r.memory, s.start, s.end)
                            /\ UNCHANGED <<parts, pull, partIndex, locked,
                                           raised>>
                     ELSE IF r.done
                       THEN /\ SetBuffer(g.memory, g.start, g.end)
                            /\ parts' =
                                 IF g.found
                                   THEN Close(IF g.before # <<>>
                                                THEN Enqueue(parts, k, g.before)
                                                ELSE parts, k, "match")
                                   ELSE Close(parts, k, "eof")
                            /\ Settled(k, parts', g.memory)
                            /\ UNCHANGED <<locked, raised>>
                     ELSE /\ SetBuffer(r.memory, s.start, s.end)
                          /\ UNCHANGED <<parts, pull, pc, partIndex, locked,
                                         raised>>
  /\ UNCHANGED <<scenario, run, first>>

Next ==
  \/ Construct
  \/ Begin
  \/ SearchOpening
  \/ SearchHeaders
  \/ Advance
  \/ DrainEpilogue
  \/ \E k \in 1..Len(parts) : ReadBody(k)
  \/ \E k \in 1..Len(parts) : CancelBody(k)
  \/ Pull
  \/ Return

Spec == Init /\ [][Next]_vars

\* the false-prefix body, with a pull that is scheduled until it settles:
\* nothing else can run while a pull is awaited
SpecHeld == InitHeld /\ [][Next]_vars /\ WF_vars(Pull)

\* the minimal body under the two-chunk splits and the one-byte chunks
SpecSplit == InitSplit /\ [][Next]_vars

\* a source that hands over its chunks and then end-of-stream, a consumer
\* that keeps pulling and an event loop that runs every continuation: no
\* step that can be taken is put off for ever
SpecLive == InitLive /\ [][Next]_vars /\ WF_vars(Next)

SpecHeaders == InitHeaders /\ [][Next]_vars


\* ------------------------------------------------ searching a stream

\* #find, the probe and #shift under any needle: a stream of bytes is
\* appended to the buffer chunk by chunk while #findConcat, or the pull of
\* #findStream, looks for the needle in it.  Here `scenario` holds the
\* stream (haystack), the bytes of the needle, which of the two loops runs
\* (stream) and the size of the chunks the source hands over (chunk; 0 for
\* any size up to MaxChunk); `parts` holds the byte arrays returned or
\* enqueued so far.

\* the bytes the streams and the needles are made of
SearchBytes == {97, 98}

\* longest stream and longest needle
MaxHaystack == 5
MaxNeedle == 3

Texts(n) == UNION { [1..k -> SearchBytes] : k \in 0..n }

\* 256 bytes that are not in the long needle, then the long needle
LongHaystack == Filler \o boundaryLong.bytes

\* a chunk size that cuts LongHaystack inside the needle
LongCut == 300

SearchScenarios ==
  { [haystack |-> h, needle |-> n, stream |-> s, chunk |-> 0] :
      h \in Texts(MaxHaystack), n \in Texts(MaxNeedle) \ {<<>>},
      s \in BOOLEAN }
  \union
  { [haystack |-> LongHaystack, needle |-> boundaryLong.bytes,
     stream |-> s, chunk |-> c] :
      s \in BOOLEAN, c \in {LongCut, Len(LongHaystack)} }

haystack == scenario.haystack

\* the needle that is looked for
theNeedle ==
  IF scenario.needle = boundaryLong.bytes THEN boundaryLong
                                          ELSE Needle(scenario.needle)

InitSearch ==
  /\ scenario \in SearchScenarios
  /\ pos = 0
  /\ srcClosed = FALSE
  /\ memory = <<>>
  /\ capacity = 0
  /\ valid = 0
  /\ start = 0
  /\ end = 0
  /\ payloadSize = 0
  /\ pc = IF scenario.stream THEN "stream" ELSE "concat"
  /\ partIndex = 0
  /\ locked = TRUE
  /\ parts = <<>>
  /\ pull = 0
  /\ raised = <<>>
  /\ run = 1
  /\ first = <<>>

\* the sizes of the chunk the source may hand over next: 0 at the end of
\* the stream
NextSizes ==
  IF pos = Len(haystack) THEN {0}
  ELSE IF scenario.chunk # 0
    THEN {Min2(scenario.chunk, Len(haystack) - pos)}
  ELSE 1..Min2(MaxChunk, Len(haystack) - pos)

\* #read() without limits: the next n bytes are written at the valid
\* cutoff, the indices stay; n = 0: the source is done
ReadUnlimited(mem, s, e, n) ==
  /\ SetBuffer(mem \o Slice(haystack, pos, pos + n), s, e)
  /\ pos' = pos + n
  /\ srcClosed' = (n = 0)

\* one turn of the while loop of #findConcat(needle)
ConcatTurn ==
  /\ pc = "concat"
  /\ \E f \in {Find(memory, start, theNeedle)} :
       IF f.spin THEN Hang /\ UNCHANGED parts
       ELSE IF f.found
         THEN /\ SetBuffer(f.memory, f.start, f.end)
              /\ parts' = Append(parts, f.before)
              /\ pc' = "found"
              /\ UNCHANGED <<pos, srcClosed>>
         ELSE \E n \in NextSizes :
                /\ ReadUnlimited(f.memory, f.start, f.end, n)
                /\ pc' = IF n = 0 THEN "done" ELSE "concat"
                /\ UNCHANGED parts
  /\ UNCHANGED <<scenario, capacity, payloadSize, partIndex, locked, pull,
                 raised, run, first>>

\* one turn of the for loop in the pull of #findStream(needle)
StreamTurn ==
  /\ pc = "stream"
  /\ \E f \in {Find(memory, start, theNeedle)} :
     \E s \in {Shift(f.memory, Probe(f.memory, f.start, theNeedle),
                     Probe(f.memory, f.start, theNeedle))} :
       IF f.spin THEN Hang /\ UNCHANGED parts
       ELSE IF f.found
         THEN /\ SetBuffer(f.memory, f.start, f.end)
              /\ parts' = IF f.before # <<>> THEN Append(parts, f.before)
                                             ELSE parts
              /\ pc' = "found"
              /\ UNCHANGED <<pos, srcClosed>>
       ELSE IF srcClosed
         THEN /\ SetBuffer(f.memory, f.start, f.end)
              /\ pc' = "done"
              /\ UNCHANGED <<pos, srcClosed, parts>>
       ELSE IF s.before # <<>>
         THEN /\ SetBuffer(s.memory, s.start, s.end)
              /\ parts' = Append(parts, s.before)
              /\ UNCHANGED <<pos, srcClosed, pc>>
         ELSE \E n \in NextSizes :
                /\ ReadUnlimited(s.memory, s.start, s.end, n)
                /\ UNCHANGED <<pc, parts>>
  /\ UNCHANGED <<scenario, capacity, payloadSize, partIndex, locked, pull,
                 raised, run, first>>

NextSearch == ConcatTurn \/ StreamTurn

SpecSearch == InitSearch /\ [][NextSearch]_vars

\* ------------------------------------------- parsing header parameters

\* Header.params turn by turn on a header value made of segments joined
\* by ";".  Here `scenario` holds the segments and the header value, `pos`
\* is the cursor, `parts` the pairs set so far, and pc is "params" while
\* the loop runs and "parsed" when it has been left.

\* segments: the text of each is in the comment above it

\* a
BareSegment == <<97>>

\* (empty)
EmptySegment == <<>>

\* k=v
PlainSegment == <<107, 61, 118>>

\*  k = w 
SpacedSegment == <<32, 107, 32, 61, 32, 119, 32>>

\* k="q"
QuotedSegment == <<107, 61, 34, 113, 34>>

\* j=%41
EscapedSegment == <<106, 61, 37, 52, 49>>

\* j=%zz
BadEscapeSegment == <<106, 61, 37, 122, 122>>

\* valueOf=x
InheritedSegment == <<118, 97, 108, 117, 101, 79, 102, 61, 120>>

Segments ==
  {BareSegment, EmptySegment, PlainSegment, SpacedSegment, QuotedSegment,
   EscapedSegment, BadEscapeSegment, InheritedSegment}

\* most segments in a header value
MaxSegments == 3

RECURSIVE Join(_)
Join(segs) ==
  IF segs = <<>> THEN <<>>
  ELSE IF Len(segs) = 1 THEN segs[1]
  ELSE segs[1] \o <<SEMI>> \o Join(Tail(segs))

ParamScenarios ==
  { [segments |-> g, header |-> Join(g)] :
      g \in UNION { [1..n -> Segments] : n \in 1..MaxSegments } }

InitParams ==
  /\ scenario \in ParamScenarios
  /\ pos = 0
  /\ srcClosed = FALSE
  /\ memory = <<>>
  /\ capacity = 0
  /\ valid = 0
  /\ start = 0
  /\ end = 0
  /\ payloadSize = 0
  /\ pc = "params"
  /\ partIndex = 0
  /\ locked = FALSE
  /\ parts = <<>>
  /\ pull = 0
  /\ raised = <<>>
  /\ run = 1
  /\ first = <<>>

\* one turn of the for loop of Header.params(header)
ParamsStep ==
  /\ pc = "params"
  /\ \E t \in {ParamsTurn(scenario.header, pos, parts)} :
       IF t.done
         THEN pc' = "parsed" /\ UNCHANGED <<pos, parts>>
         ELSE pos' = t.cursor /\ parts' = t.parsed /\ UNCHANGED pc
  /\ UNCHANGED <<scenario, srcClosed, memory, capacity, valid, start, end,
                 payloadSize, partIndex, locked, pull, raised, run, first>>

NextParams == ParamsStep

SpecParams == InitParams /\ [][NextParams]_vars

\* ------------------------------------------------ what the wire says

\* the source ended before the whole body was handed over
Truncated == srcClosed /\ pos < Len(wire)

\* the parts of the body as the grammar delimits them
NumParts == Len(scenario.body.parts)

\* header block of the k-th part: the first one follows the opening
\* delimiter's CRLF, the later ones the delimiter itself
ExpectedHeaders(k) ==
  IF k = 1 THEN scenario.body.parts[k].hdr
  ELSE CRLF \o scenario.body.parts[k].hdr

ExpectedBody(k) == scenario.body.parts[k].body

IsPrefix(a, b) == Len(a) <= Len(b) /\ a = SubSeq(b, 1, Len(a))

\* the consumer has left no body half-read or cancelled before advancing
Orderly == \A k \in 1..Len(parts) : ~parts[k].abandoned

\* the body stream of part k has ended (not by the consumer's cancel)
Ended(k) == parts[k].state = "closed" /\ parts[k].endedBy # "cancel"

\* ------------------------------------------------- a second parse

\* the Part sequence a finished run has delivered: header block and body
\* bytes of every Part, in order
Delivered ==
  [k \in 1..Len(parts) |->
     [headers |-> parts[k].headers, body |-> parts[k].body]]

\* the generator has completed without any error, on a body handed over
\* whole, for a consumer that read or skipped every body in turn
CleanRun ==
  /\ pc = "done"
  /\ pull = 0
  /\ raised = <<>>
  /\ ~Truncated
  /\ Orderly

\* a new Multipart is constructed on a request with the same body bytes
\* and options; the source is free to cut the bytes into other chunks
Restart ==
  /\ run = 1
  /\ CleanRun
  /\ run' = 2
  /\ first' = Delivered
  /\ pos' = 0
  /\ srcClosed' = FALSE
  /\ memory' = <<>>
  /\ capacity' = InitialCapacity
  /\ valid' = 0
  /\ start' = 0
  /\ end' = 0
  /\ payloadSize' = 0
  /\ pc' = "start"
  /\ partIndex' = 0
  /\ locked' = TRUE
  /\ parts' = <<>>
  /\ pull' = 0
  /\ raised' = <<>>
  /\ UNCHANGED scenario

NextRuns == Next \/ Restart

SpecRuns == Init /\ [][NextRuns]_vars

\* -------------------------------------------------------------- claims

\* C1: two clean runs over the same body bytes and options, whatever the
\* chunks of each, deliver the same Part sequence: as many Parts, with the
\* same header blocks and the same body bytes, in the same order.
ChunkingIndependent ==
  (run = 2 /\ CleanRun) => Delivered = first

\* C2: for a complete well-formed body and every chunking, what a Part's
\* body stream has emitted is at every moment a prefix of the bytes between
\* the part's header terminator and the CRLF before its closing delimiter,
\* and is exactly those bytes once the stream has ended.
BodyExact ==
  (~Truncated /\ Orderly) =>
    \A k \in 1..Len(parts) :
      k <= NumParts =>
        /\ IsPrefix(parts[k].body, ExpectedBody(k))
        /\ Ended(k) => parts[k].body = ExpectedBody(k)

\* a body that came out in several chunks and is complete
BodyExactWitness ==
  /\ ~Truncated
  /\ Orderly
  /\ \E k \in 1..Len(parts) :
       /\ k <= NumParts
       /\ Ended(k)
       /\ parts[k].chunks >= 2
       /\ parts[k].body = ExpectedBody(k)


\* C3: when the consumer asks for the next Part without having touched the
\* current body, the generator does not go on before that body's stream
\* has ended; and the Part that follows a body, skipped or read to its
\* end alike, has the header block and the body the wire gives it.
AutoDrain ==
  \A k \in 1..Len(parts) :
    /\ parts[k].skipped =>
         (pc = "drain" /\ pull = k) \/ parts[k].state # "readable"
    /\ (~Truncated /\ Orderly /\ k < Len(parts) /\ k < NumParts) =>
         /\ Ended(k)
         /\ parts[k].body = ExpectedBody(k)
         /\ parts[k + 1].headers = ExpectedHeaders(k + 1)
         /\ IsPrefix(parts[k + 1].body, ExpectedBody(k + 1))
         /\ Ended(k + 1) => parts[k + 1].body = ExpectedBody(k + 1)

\* the Part after a skipped one has been read to its end
AutoDrainWitness ==
  /\ ~Truncated
  /\ Orderly
  /\ \E k \in 1..Len(parts) :
       /\ parts[k].skipped
       /\ parts[k].body # <<>>
       /\ k < Len(parts)
       /\ k < NumParts
       /\ Ended(k + 1)
       /\ ~parts[k + 1].skipped
       /\ parts[k + 1].body = ExpectedBody(k + 1)
       /\ parts[k + 1].body # <<>>

\* C4: at most one body stream is open, and the header search never runs
\* while a body stream is open.
OneLivePart ==
  /\ Cardinality({k \in 1..Len(parts) : parts[k].state = "readable"}) <= 1
  /\ pc = "headers" => \A k \in 1..Len(parts) : parts[k].state # "readable"

\* C5: once the closing delimiter of a complete body has been consumed no
\* further Part is yielded, whatever the epilogue and the chunking.
NoPartAfterClosing ==
  (~Truncated /\ Orderly) => Len(parts) <= NumParts

\* C6: the body stream of a part of the wire never closes because the
\* source ended: end-of-stream during the search for the closing delimiter
\* is an error of the stream, not its normal end.
EofFailsBody ==
  \A k \in 1..Len(parts) :
    (Orderly /\ k <= NumParts /\ parts[k].headers = ExpectedHeaders(k)) =>
      parts[k].endedBy # "eof"

\* the opening delimiter occurs in the bytes handed over so far
OpeningSeen ==
  \E j \in 0..(pos - opening.length) :
    Slice(wire, j, j + opening.length) = opening.bytes

\* C7: without an opening delimiter in the source no Part is yielded, the
\* header search is not started and the generator does not complete.
NoOpeningNoPart ==
  ~OpeningSeen =>
    /\ parts = <<>>
    /\ pc \in {"new", "rejected", "start", "opening", "error", "returned"}

\* C8: once an error has been raised, no further Part is yielded.
ErrorsTerminal ==
  [][raised # <<>> => Len(parts') = Len(parts)]_vars

\* this step raises err
Raises(err) == raised' = Append(raised, err)

\* C9: every chunk read is added to the byte count; the read raises
\* PayloadLimit exactly when the count then exceeds the `payload` option
\* (a count equal to it is accepted), and then the chunk is neither stored
\* in the buffer nor emitted by a body stream.
PayloadCeiling ==
  /\ [](payloadSize > options.payload =>
          \E j \in 1..Len(raised) : raised[j] = "PayloadLimit")
  /\ [][pos' > pos =>
          /\ payloadSize' = payloadSize + (pos' - pos)
          /\ (payloadSize' > options.payload) <=> Raises("PayloadLimit")
          /\ payloadSize' > options.payload =>
               /\ memory' = memory
               /\ valid' = valid
               /\ Len(parts') = Len(parts)
               /\ \A k \in 1..Len(parts) : parts'[k].body = parts[k].body
       ]_vars

\* a read has raised PayloadLimit
PayloadCeilingWitness ==
  /\ raised # <<>>
  /\ raised[Len(raised)] = "PayloadLimit"
  /\ payloadSize > options.payload
  /\ memory # <<>>

\* C10: valid <= capacity <= memory option always; a chunk that does not
\* fit under the memory option raises MemoryLimit and leaves valid and the
\* live bytes as they were, any other chunk is appended at valid.
MemoryCeiling ==
  /\ [](valid = Len(memory) /\ valid <= capacity
        /\ capacity <= options.memory)
  /\ [][(pos' > pos /\ pc # "epilogue" /\ payloadSize' <= options.payload) =>
          IF valid + (pos' - pos) > options.memory
            THEN /\ Raises("MemoryLimit")
                 /\ valid' = valid
                 /\ memory' = memory
            ELSE /\ raised' = raised
                 /\ valid' = valid + (pos' - pos)
                 /\ memory' = memory \o Slice(wire, pos, pos')
       ]_vars

\* an append has failed and the buffer still holds its bytes
MemoryCeilingWitness ==
  /\ raised # <<>>
  /\ raised[Len(raised)] = "MemoryLimit"
  /\ valid > 0
  /\ capacity = options.memory

\* some error of this kind has been raised
Raised(err) == \E j \in 1..Len(raised) : raised[j] = err

\* the header search stands on a header block: #find(newLine) matches
HeaderFound == pc = "headers" /\ Find(memory, start, newLine).found

\* at most N Parts are yielded, and PartLimit is raised exactly by the
\* advance that finds a header block after N Parts
PartLimitAtMost ==
  /\ [](Len(parts) <= options.parts)
  /\ [][Raises("PartLimit") <=>
          (HeaderFound /\ partIndex = options.parts /\ pc' = "error")]_vars

\* C11: with the `parts` option N at most N Parts are yielded, the advance
\* that finds the header block of one more part raises PartLimit instead
\* of yielding it, and a body of at most N parts raises no PartLimit.
PartLimit ==
  /\ PartLimitAtMost
  /\ []((NumParts <= options.parts /\ ~Truncated /\ Orderly) =>
          ~Raised("PartLimit"))

\* the use of the parser has ended: the generator has completed, has
\* thrown, or was given up by the consumer
UseEnded == pc \in {"done", "error", "returned"}

\* the reader is released at every end of use that the generator's body
\* has seen (it was started before it ended)
ReleasedOnceStarted ==
  [][(UseEnded' /\ ~UseEnded /\ pc # "start") => ~locked']_vars

\* C12: whenever the use of a parser has ended, by completion, by an error
\* thrown from an advance or by the consumer giving the iterator up at any
\* point after construction, the reader's lock on the source is released.
SourceReleased == UseEnded => ~locked

\* the Parts delivered are those of the wire, whatever surrounds them
AsOnWire ==
  /\ Len(parts) = NumParts
  /\ \A k \in 1..Len(parts) :
       /\ parts[k].headers = ExpectedHeaders(k)
       /\ parts[k].body = ExpectedBody(k)

\* a generator that completes has read the source to its end
SourceConsumed == pc = "done" => srcClosed

\* C13: preamble and epilogue are ignored: a clean run over a well-formed
\* body delivers exactly the parts between the opening and the closing
\* delimiter, and the whole source has been read when it completes.
PreambleEpilogueIgnored ==
  CleanRun => (AsOnWire /\ pos = Len(wire) /\ srcClosed)

\* every Part of the wire has been yielded and its body stream has ended
\* at its closing delimiter with all of its bytes
AllDelivered ==
  /\ Len(parts) = NumParts
  /\ \A k \in 1..Len(parts) :
       /\ parts[k].state = "closed"
       /\ parts[k].endedBy = "match"
       /\ parts[k].body = ExpectedBody(k)

\* C14: every chunk read while the epilogue is drained is added to the
\* byte count and discarded; the advance fails with PayloadLimit exactly
\* when the count then exceeds the `payload` option; and on a body handed
\* over whole the drain runs only after every Part of the wire was
\* delivered with its full body.
EpilogueCounted ==
  /\ []((pc = "epilogue" /\ Orderly /\ ~Truncated) => AllDelivered)
  /\ [][(pc = "epilogue" /\ pos' > pos) =>
          /\ payloadSize' = payloadSize + (pos' - pos)
          /\ memory' = memory
          /\ parts' = parts
          /\ IF payloadSize' > options.payload
               THEN Raises("PayloadLimit") /\ pc' = "error" /\ ~locked'
               ELSE raised' = raised /\ pc' = "epilogue"
       ]_vars

\* the epilogue drain has failed with PayloadLimit after the Part was
\* delivered: the closing "--" is still at the head of the buffer
EpilogueCountedWitness ==
  /\ pc = "error"
  /\ ~Truncated
  /\ raised = <<"PayloadLimit">>
  /\ Orderly
  /\ AllDelivered
  /\ Len(memory) > 1
  /\ SubSeq(memory, 1, 2) = <<DASH, DASH>>
  /\ payloadSize > options.payload

\* C15: the minimal single-part body, cut in two at any index or handed
\* over byte by byte, raises no error (for a consumer that does not give
\* the iterator up), yields no Part but the one on the wire, and has
\* yielded exactly that Part, with its header block and its body, when the
\* generator completes.
SplitYieldsOne ==
  /\ (Orderly /\ pc # "returned") => raised = <<>>
  /\ Orderly =>
       /\ Len(parts) <= 1
       /\ \A k \in 1..Len(parts) :
            /\ parts[k].headers = ExpectedHeaders(k)
            /\ IsPrefix(parts[k].body, ExpectedBody(k))
  /\ CleanRun => AsOnWire

\* a completed run over the body cut inside its closing delimiter, the
\* consumer having read the body
SplitYieldsOneWitness ==
  /\ scenario.cut = SplitAt(Len(Minimal.wire) - 6)
  /\ CleanRun
  /\ AsOnWire
  /\ ~parts[1].skipped

\* a completed run over the body handed over byte by byte
BytewiseReached ==
  /\ scenario.cut = ByteCut
  /\ CleanRun
  /\ AsOnWire

\* the first body stream has emitted all of the content but the three
\* bytes, which are the whole buffer, and the source stands right after
HeldBack ==
  /\ Len(parts) = 1
  /\ pos = TrickyEnd
  /\ ~srcClosed
  /\ memory = HeldBytes
  /\ parts[1].body \o HeldBytes = TrickyValue

\* C16: content ending in CR LF "-" with a chunk ending right there: what
\* the body stream has emitted plus what the buffer holds is the content,
\* the pull that finds the whole content in the buffer emits it up to
\* those three bytes and holds them back, the stream ends with the full
\* content, and every pull settles.
FalsePositive ==
  /\ []((Len(parts) = 1 /\ pos = TrickyEnd /\ ~srcClosed /\ Orderly) =>
          /\ parts[1].body \o memory = TrickyValue
          /\ Len(memory) >= Len(HeldBytes))
  /\ [][(pull = 1 /\ Len(parts) = 1 /\ pos = TrickyEnd /\ ~srcClosed
          /\ memory = TrickyValue) => HeldBack']_vars
  /\ []((~Truncated /\ Orderly /\ Len(parts) >= 1) =>
          /\ IsPrefix(parts[1].body, TrickyValue)
          /\ Ended(1) => parts[1].body = TrickyValue)
  /\ (pull # 0) ~> (pull = 0)

\* the body cut right after the three bytes: the consumer has read the
\* full content in two chunks
FalsePositiveWitness ==
  /\ scenario.cut = SplitAt(TrickyEnd)
  /\ Len(parts) >= 1
  /\ ~parts[1].skipped
  /\ Ended(1)
  /\ parts[1].chunks = 2
  /\ parts[1].body = TrickyValue

\* b holds CR LF "--" somewhere
HasLookalike(b) ==
  \E j \in 0..(Len(b) - 4) : Slice(b, j, j + 4) = <<CR, LF, DASH, DASH>>

\* index on the wire right after the closing delimiter of the k-th part
DelimiterEnd(k) ==
  Len(scenario.body.pre \o Delimiter \o CRLF)
  + Len(PartsBytes(SubSeq(scenario.body.parts, 1, k)))

\* part k of the wire has CR LF "--" in its content and its Part has been
\* yielded in a run over the whole body with an orderly consumer
LookalikePart(k) ==
  /\ k <= NumParts
  /\ k <= Len(parts)
  /\ HasLookalike(ExpectedBody(k))
  /\ ~Truncated
  /\ Orderly

\* C17: content holding CR LF "--" (followed by a proper prefix of the
\* boundary but not by the boundary) is delivered verbatim: the body
\* stream emits only bytes of the content, in order, it ends with all of
\* them, and when it ends the bytes left to parse are those that follow
\* the part's delimiter on the wire.
LookalikeVerbatim ==
  \A k \in 1..Len(parts) :
    LookalikePart(k) =>
      /\ IsPrefix(parts[k].body, ExpectedBody(k))
      /\ Ended(k) =>
           /\ parts[k].body = ExpectedBody(k)
           /\ (pc \in {"yield", "drain"} /\ k = Len(parts)) =>
                memory \o Slice(wire, pos, Len(wire))
                  = Slice(wire, DelimiterEnd(k), Len(wire))

\* the content CR LF "--X" "ab" has come out of a stream in several chunks
LookalikeVerbatimWitness ==
  /\ scenario.body = Lookalike
  /\ LookalikePart(1)
  /\ Ended(1)
  /\ parts[1].endedBy = "match"
  /\ parts[1].chunks >= 2
  /\ parts[1].body = <<CR, LF, DASH, DASH, 88, 97, 98>>

\* part k of the wire has an empty body and its Part has been yielded in
\* a run over the whole body with an orderly consumer
EmptyPart(k) ==
  /\ k <= NumParts
  /\ k <= Len(parts)
  /\ ExpectedBody(k) = <<>>
  /\ ~Truncated
  /\ Orderly

\* C18: the body stream of a part with an empty body never emits a chunk,
\* the pull that serves its first read ends with the stream closed, and the
\* Part that follows has the header block and the body of the wire.
EmptyBody ==
  /\ [](\A k \in 1..Len(parts) :
          EmptyPart(k) =>
            /\ parts[k].chunks = 0
            /\ parts[k].body = <<>>
            /\ parts[k].state = "closed" => parts[k].endedBy # "eof"
            /\ k < Len(parts) =>
                 /\ parts[k + 1].headers = ExpectedHeaders(k + 1)
                 /\ IsPrefix(parts[k + 1].body, ExpectedBody(k + 1))
                 /\ Ended(k + 1) =>
                      parts[k + 1].body = ExpectedBody(k + 1))
  /\ [][\A k \in 1..Len(parts) :
          (pull = k /\ pull' # k /\ EmptyPart(k) /\ ~Truncated'
           /\ raised' = raised) =>
            /\ parts'[k].state = "closed"
            /\ parts'[k].endedBy = "match"
            /\ parts'[k].chunks = 0
       ]_vars

\* the consumer has read the empty body (its first read found the stream
\* closed) and then the whole body of the next Part
EmptyBodyWitness ==
  /\ EmptyPart(1)
  /\ ~parts[1].skipped
  /\ parts[1].state = "closed"
  /\ parts[1].endedBy = "match"
  /\ parts[1].chunks = 0
  /\ Len(parts) >= 2
  /\ ~parts[2].skipped
  /\ Ended(2)
  /\ parts[2].body = ExpectedBody(2)
  /\ parts[2].body # <<>>

\* the Content-Type header is absent or its type is not multipart/...
BadType(req) == req.type = Null \/ req.type[1] # "multipart/"

\* the boundary parameter is absent or empty
BadBoundary(req) == req.boundary = Null \/ Len(req.boundary) = 0

\* C19: the constructor fails exactly for a request with a Content-Type
\* that is absent or not multipart/ (InvalidContentType), else with a
\* boundary that is absent or empty (InvalidBoundary), else without a body
\* (NoRequestBody); then nothing was read from the source and there is no
\* reader, no buffer and no Part.
ConstructionErrors ==
  /\ [](pc = "rejected" =>
          /\ pos = 0
          /\ payloadSize = 0
          /\ ~srcClosed
          /\ ~locked
          /\ capacity = 0
          /\ memory = <<>>
          /\ parts = <<>>
          /\ Len(raised) = 1)
  /\ [](pc \notin {"new", "rejected"} =>
          /\ ~BadType(scenario.request)
          /\ ~BadBoundary(scenario.request)
          /\ scenario.request.body)
  /\ [][pc = "new" =>
          IF BadType(scenario.request)
            THEN Raises("InvalidContentType") /\ pc' = "rejected"
          ELSE IF BadBoundary(scenario.request)
            THEN Raises("InvalidBoundary") /\ pc' = "rejected"
          ELSE IF ~scenario.request.body
            THEN Raises("NoRequestBody") /\ pc' = "rejected"
          ELSE raised' = raised /\ pc' = "start" /\ locked' /\ pos' = 0
       ]_vars

\* a request with an empty boundary parameter has been refused
ConstructionErrorsWitness ==
  /\ pc = "rejected"
  /\ scenario.request.boundary = <<>>
  /\ scenario.request.body
  /\ raised = <<"InvalidBoundary">>

\* the Parts yielded so far are the first parts of the wire, in its order,
\* and each body stream has emitted a prefix of its part's content
InWireOrder ==
  (~Truncated /\ Orderly) =>
    \A k \in 1..Len(parts) :
      k <= NumParts =>
        /\ parts[k].headers = ExpectedHeaders(k)
        /\ IsPrefix(parts[k].body, ExpectedBody(k))

\* C20: for a well-formed body of n parts the Parts are yielded in the
\* order of the wire, each body in source order, never more than n of
\* them, and exactly n when the generator completes.
OrderAndCount ==
  /\ InWireOrder
  /\ (~Truncated /\ Orderly) => Len(parts) <= NumParts
  /\ CleanRun => Len(parts) = NumParts

\* the parser is at rest: the generator has completed, thrown, or was
\* returned or never made, no pull is running and no body stream is open
AtRest ==
  /\ pc \in {"done", "error", "returned", "rejected"}
  /\ pull = 0
  /\ \A k \in 1..Len(parts) : parts[k].state # "readable"

\* with needles shorter than 256 bytes every search returns, every pull
\* settles and the parser comes to rest
TerminationShort ==
  (boundary.length < 256) =>
    /\ [](pc # "spin")
    /\ (pull # 0) ~> (pull = 0)
    /\ <>[]AtRest

\* C21: for a source that hands over finitely many chunks and a consumer
\* that keeps pulling, no search runs for ever, every pull settles, and in
\* the end the generator has completed or thrown and every body stream is
\* closed or errored.
Termination ==
  /\ [](pc # "spin")
  /\ (pull # 0) ~> (pull = 0)
  /\ <>[]AtRest


\* ------------------------------------------------------- header lines

\* the lines of a header block that have a colon
ColonLines(rawHeaders) ==
  LET lines == Split(rawHeaders)
  IN {j \in 1..Len(lines) : IndexOf(lines[j], COLON, 0) # 0 - 1}

\* the header block without its lines that have no colon
WithoutMalformed(rawHeaders) ==
  LET lines == Split(rawHeaders)
      good == ColonLines(rawHeaders)
      nth(k) == CHOOSE j \in good : Cardinality({x \in good : x < j}) = k - 1
  IN Block([k \in 1..Cardinality(good) |-> lines[nth(k)]])

\* the header block of the scenario's only part
TheBlock == scenario.body.parts[1].hdr

\* C22: a header line without a colon is ignored without error: the Part is
\* still yielded (the block raises nothing that it would not raise without
\* the line), the headers have one entry per line with a colon and no
\* more, and the entries, the type, the name and the filename are those of
\* the block without the line
MalformedIgnored ==
  /\ \A k \in 1..Len(parts) :
       LET raw == parts[k].headers
           clean == NewPart(WithoutMalformed(raw))
       IN /\ Len(parts[k].fields) = Cardinality(ColonLines(raw))
          /\ parts[k].fields = clean.fields
          /\ parts[k].type = clean.type
          /\ parts[k].name = clean.name
          /\ parts[k].filename = clean.filename
  /\ ~PartThrows(WithoutMalformed(TheBlock)) =>
       /\ \A j \in 1..Len(raised) : raised[j] # "HeaderInvalid"
       /\ pc \in {"yield", "drain", "epilogue", "done"} => Len(parts) = 1

\* a part is yielded from a block with a line without a colon between two
\* header lines; its name and type are those of the two lines
MalformedIgnoredWitness ==
  /\ Len(parts) = 1
  /\ parts[1].headers = Block(<<DispositionLine, NoColonLine, TypeLine>>)
  /\ Len(parts[1].fields) = 2
  /\ parts[1].name = <<<<110>>>>
  /\ parts[1].type = <<<<116, 47, 112>>>>


\* the text of a content-type value before its first ";", all of it when
\* it has none
BeforeSemi(value) ==
  IF IndexOf(value, SEMI, 0) = 0 - 1 THEN value
  ELSE Slice(value, 0, IndexOf(value, SEMI, 0))

\* the values of the content-type lines of a header block, parameters
\* included, without the white space around them
TypeValues(rawHeaders) ==
  LET pairs == HeaderPairs(rawHeaders)
  IN { Strip(pairs[k].value, HttpSpace) :
         k \in {j \in 1..Len(pairs) : Lower(pairs[j].name) = ContentType} }

\* the type is what stands before the first ";", white space before the
\* ";" included; null without a content-type header; the headers keep the
\* full value
TypeUpToSemi ==
  \A k \in 1..Len(parts) :
    LET value == Get(parts[k].fields, ContentType)
    IN /\ (TypeValues(parts[k].headers) = {}) = (value = Absent)
       /\ value = Absent => parts[k].type = Absent
       /\ value # Absent => parts[k].type = <<BeforeSemi(value[1])>>
       /\ \A v \in TypeValues(parts[k].headers) :
            \E j \in 1..Len(parts[k].fields) :
              /\ parts[k].fields[j].name = ContentType
              /\ parts[k].fields[j].value = v

\* C23: a Part's type is the text of its content-type value before the
\* first ";" with the white space around it trimmed, null when the part has
\* no content-type header, and the headers keep the full value
TypeTrimmed ==
  \A k \in 1..Len(parts) :
    LET value == Get(parts[k].fields, ContentType)
    IN /\ (TypeValues(parts[k].headers) = {}) = (value = Absent)
       /\ value = Absent => parts[k].type = Absent
       /\ value # Absent => parts[k].type = <<Trim(BeforeSemi(value[1]))>>
       /\ \A v \in TypeValues(parts[k].headers) :
            \E j \in 1..Len(parts[k].fields) :
              /\ parts[k].fields[j].name = ContentType
              /\ parts[k].fields[j].value = v


\* ------------------------------------------------------ search claims

\* the bytes of the needle start at index j of mem and lie inside it
OccursAt(mem, bytes, j) ==
  /\ j >= 0
  /\ j + Len(bytes) <= Len(mem)
  /\ Slice(mem, j, j + Len(bytes)) = bytes

\* a naive search: the index of the leftmost occurrence that begins at s
\* or after it, -1 when there is none
NaiveFind(mem, bytes, s) ==
  LET hits == {j \in s..(Len(mem) - Len(bytes)) : OccursAt(mem, bytes, j)}
  IN IF hits = {} THEN 0 - 1 ELSE CHOOSE j \in hits : \A h \in hits : j <= h

\* a search is about to run and no occurrence begins before start
Entered ==
  /\ pc \in {"concat", "stream"}
  /\ \A j \in 0..(start - 1) : ~OccursAt(memory, theNeedle.bytes, j)

\* the step returns or enqueues the bytes b, or nothing when the pull finds
\* the needle at the head of the buffer
Returns(b) ==
  parts' = IF pc = "stream" /\ b = <<>> THEN parts ELSE Append(parts, b)

\* what find reports is what the naive search reports: Found exactly when
\* the needle occurs at start or after it, and then the leftmost occurrence
\* (the bytes before it are returned, the bytes after it are kept)
AgreesWithNaive ==
  LET at == NaiveFind(memory, theNeedle.bytes, start)
  IN /\ (pc' = "found") = (at # 0 - 1)
     /\ at # 0 - 1 =>
          /\ Returns(Slice(memory, 0, at))
          /\ valid' = Len(memory) - (at + theNeedle.length)

\* find agrees with the naive search for the needles shorter than 256 bytes
FindAgreesShort ==
  [][(Entered /\ theNeedle.length < 256) => AgreesWithNaive]_vars

\* C24: for every buffer, valid and needle, a find entered with a start that
\* no occurrence begins before reports Found exactly when the needle occurs
\* inside buffer[0..valid) from start on, and reports the leftmost such
\* occurrence
FindAgrees == [][Entered => AgreesWithNaive]_vars

\* #findConcat has not found the needle and goes on, or ends with the stream
Missed == pc = "concat" /\ pc' \in {"concat", "done"}

\* the place the claim gives for the next search
SafeStart(valid0, length) == Max2(0, valid0 - (length - 1))

\* without a match find records start = end = max(0, valid - (L - 1)),
\* except for valid = L
SafeStartElsewhere ==
  [][(Missed /\ Len(memory) # theNeedle.length) =>
       /\ start' = SafeStart(Len(memory), theNeedle.length)
       /\ end' = start']_vars

\* for valid = L find records 0
SafeStartAtLength ==
  [][(Missed /\ Len(memory) = theNeedle.length) =>
       start' = 0 /\ end' = 0]_vars

\* C25: when find ends without a match it records
\* start = end = max(0, valid - (L - 1)), for every valid and every needle
\* length L, valid = L and valid < L included
SafeStartRecorded ==
  [][Missed =>
       /\ start' = SafeStart(Len(memory), theNeedle.length)
       /\ end' = start']_vars

\* the bytes the source has handed over so far
HandedOver == Slice(haystack, 0, pos)

\* the search over the chunks finds what one search over their
\* concatenation finds
ResumedAgrees ==
  LET at == NaiveFind(HandedOver, theNeedle.bytes, 0)
      single == Find(HandedOver, 0, theNeedle)
  IN /\ memory = HandedOver
     /\ (pc' = "found") = (at # 0 - 1)
     /\ at # 0 - 1 =>
          /\ parts' = <<Slice(HandedOver, 0, at)>>
          /\ memory' = Slice(HandedOver, at + theNeedle.length, pos)
          /\ single.found
          /\ parts' = <<single.before>>
          /\ memory' = single.memory
     /\ pc' = "done" => NaiveFind(haystack, theNeedle.bytes, 0) = 0 - 1

\* the resumed search loses no match of a needle shorter than 256 bytes
ResumedSearchShort ==
  [][(pc = "concat" /\ theNeedle.length < 256) => ResumedAgrees]_vars

\* C26: a search that is resumed from the recorded start after each chunk
\* loses no match: once an occurrence of the needle is complete in the
\* bytes handed over, across any number of chunks, the search finds it, at
\* the position where one search over the concatenated bytes finds it
ResumedSearch == [][pc = "concat" => ResumedAgrees]_vars

\* C27: the shift after a match returns the bytes [0, start), moves the
\* bytes [end, valid) to the head of the buffer in their order, sets valid
\* to valid - end and start = end = 0; what was returned before is not
\* altered by later appends and shifts
MatchAndShift ==
  [][/\ (pc \in {"concat", "stream"} /\ pc' = "found") =>
          LET at == NaiveFind(memory, theNeedle.bytes, start)
              to == at + theNeedle.length
          IN /\ Returns(Slice(memory, 0, at))
             /\ memory' = Slice(memory, to, valid)
             /\ valid' = valid - to
             /\ start' = 0
             /\ end' = 0
     /\ \A k \in 1..Len(parts) : Len(parts') >= k /\ parts'[k] = parts[k]
    ]_vars

\* #findConcat has returned the bytes before a match in the middle of the
\* stream: bytes came before the match and bytes follow it
MatchAndShiftWitness ==
  /\ pc = "found"
  /\ ~scenario.stream
  /\ Len(parts) = 1
  /\ Len(parts[1]) = 2
  /\ theNeedle.length = 2
  /\ Len(memory) = 1
  /\ valid = 1
  /\ start = 0
  /\ end = 0


\* C28: in every reachable state of the parser, after any reads, searches,
\* probes and shifts, 0 <= start <= end <= valid <= capacity <= ceiling
\* (the `memory` option), valid being the number of live bytes
IndexInvariant ==
  /\ 0 <= start
  /\ start <= end
  /\ end <= valid
  /\ valid = Len(memory)
  /\ valid <= capacity
  /\ capacity <= options.memory

\* a search has left start = end inside a buffer that is full to the
\* ceiling
IndexInvariantWitness ==
  /\ 0 < start
  /\ start = end
  /\ end < valid
  /\ valid = capacity
  /\ capacity = options.memory

\* the pull of #findStream runs a turn in which #find returns without a
\* match while the source is not done: the probe and the shift follow
ProbeTurn ==
  /\ pc = "stream"
  /\ ~srcClosed
  /\ ~Find(memory, start, theNeedle).found
  /\ ~Find(memory, start, theNeedle).spin

\* the first index of the longest suffix of mem that is a proper prefix of
\* bytes, -1 when no suffix is one
SuffixStart(mem, bytes) ==
  LET lens == {n \in 1..Min2(Len(bytes) - 1, Len(mem)) :
                 Slice(mem, Len(mem) - n, Len(mem)) = Slice(bytes, 0, n)}
  IN IF lens = {} THEN 0 - 1 ELSE Len(mem) - Max(lens)

\* the turn emits buffer[0..p) and retains buffer[p..valid); with p = 0
\* nothing is emitted and the next chunk is appended to what is retained
EmitsUpTo(p) ==
  IF p > 0
    THEN /\ parts' = Append(parts, Slice(memory, 0, p))
         /\ memory' = Slice(memory, p, valid)
         /\ pos' = pos
    ELSE /\ parts' = parts
         /\ memory' = memory \o Slice(haystack, pos, pos')

\* C29: when find returns NotFound during body streaming and a suffix of
\* buffer[0..valid) is a proper prefix of the terminator, the probe sets
\* start = end to the first index of the longest such suffix; the pull emits
\* exactly buffer[0..start) and retains buffer[start..valid)
PartialSuffix ==
  [][(ProbeTurn /\ SuffixStart(memory, theNeedle.bytes) # 0 - 1) =>
       /\ Probe(memory, NotFoundStart(theNeedle, valid), theNeedle)
            = SuffixStart(memory, theNeedle.bytes)
       /\ EmitsUpTo(SuffixStart(memory, theNeedle.bytes))
       /\ start' = 0
       /\ end' = 0]_vars

\* the pull has emitted "b" and retains "aa", the longer of the two
\* suffixes of "baa" that are prefixes of the needle "aab"
PartialSuffixWitness ==
  /\ pc = "stream"
  /\ scenario.needle = <<97, 97, 98>>
  /\ pos = 3
  /\ parts = <<<<98>>>>
  /\ memory = <<97, 97>>
  /\ start = 0

\* without a partial suffix the pull emits the bytes before the place #find
\* recorded and retains the bytes from there on: the last L - 1 bytes of
\* the buffer, or all of them when valid <= L
ProbeMissRetains ==
  [][(ProbeTurn /\ SuffixStart(memory, theNeedle.bytes) = 0 - 1) =>
       EmitsUpTo(NotFoundStart(theNeedle, valid))]_vars

\* C30: when find returns NotFound during body streaming and no suffix of
\* the live region matches a prefix of the terminator, the pull emits the
\* entire live region buffer[0..valid) and retains nothing
ProbeMissEmitsAll ==
  [][(ProbeTurn /\ SuffixStart(memory, theNeedle.bytes) = 0 - 1) =>
       EmitsUpTo(valid)]_vars


\* ------------------------------------------------------- needle claims

\* the positions before the last one at which the needle holds the byte b
Earlier(bytes, b) == {p \in 0..(Len(bytes) - 2) : bytes[p + 1] = b}

\* the skip table the specification describes
SkipOf(bytes, b) ==
  IF Earlier(bytes, b) = {} THEN Len(bytes)
  ELSE (Len(bytes) - 1) - Max(Earlier(bytes, b))

\* the table follows the rule for the needles shorter than 256 bytes
SkipRuleShort ==
  \A n \in {theNeedle} :
    n.length < 256 => \A b \in 0..255 : n.skip[b] = SkipOf(n.bytes, b)

\* C31: for every needle of length L and every byte b, skip[b] = last - p
\* for the largest position p < last that holds b, and skip[b] = L when b
\* is at no position before last
SkipRule ==
  \A n \in {theNeedle} : \A b \in 0..255 : n.skip[b] = SkipOf(n.bytes, b)

\* the last byte of the needle
LastByte == scenario.needle[Len(scenario.needle)]

\* the bytes whose skip entry the search that is about to run reads
SkipsRead(n) ==
  IF pc \in {"concat", "stream"}
    THEN FindLoop(memory, n, start + n.end).read
    ELSE {}

\* what the table is filled with: the length, as an 8-bit slot stores it
Fill == Len(scenario.needle) % 256

\* the first wording of C32, which needle "ab" in "bb" refutes: for every
\* needle the skip entry of the needle's last byte has the default value L,
\* and find never reads it when it moves the cursor after a mismatch
LastEntryDefault ==
  \A n \in {theNeedle} :
    /\ n.skip[LastByte] = n.length
    /\ LastByte \notin SkipsRead(n)

\* C32: the last position of the needle writes no skip entry: the entry of
\* the needle's last byte keeps what the table was filled with exactly when
\* the byte is at no earlier position, and is last - p for the largest
\* earlier position p otherwise; find reads it only after a mismatch with
\* that byte under the cursor, and then the needle does not end there
LastEntryUnwritten ==
  \A n \in {theNeedle} :
    /\ n.skip[LastByte] =
         IF Earlier(n.bytes, LastByte) = {} THEN Fill
         ELSE n.end - Max(Earlier(n.bytes, LastByte))
    /\ LastByte \in SkipsRead(n) =>
         \E i \in 0..(valid - 1) :
           /\ At(memory, i) = LastByte
           /\ i >= start + n.end
           /\ ~MatchesBack(memory, n, n.end, i)

\* the needle "ab" is looked for in "bb": the comparison fails on "a" with
\* the needle's last byte under the cursor, and its skip entry, the
\* default 2, moves the cursor
LastEntryUnwrittenWitness ==
  /\ scenario.needle = <<97, 98>>
  /\ memory = <<98, 98>>
  /\ start = 0
  /\ pc = "concat"
  /\ theNeedle.skip[98] = 2
  /\ 98 \in SkipsRead(theNeedle)

\* C33: for every needle of length L >= 1 every entry of the skip table, as
\* its 8-bit slot stores it, is an integer in 1..L, so each mismatch in find
\* moves the cursor by at least one position
SkipPositive ==
  /\ \A n \in {theNeedle} : \A b \in 0..255 : n.skip[b] \in 1..n.length
  /\ pc # "spin"

\* the entries are in 1..L for the needles shorter than 256 bytes
SkipPositiveShort ==
  Len(scenario.needle) < 256 =>
    /\ \A n \in {theNeedle} : \A b \in 0..255 : n.skip[b] \in 1..n.length
    /\ pc # "spin"


\* ------------------------------------------------ streaming claims

\* a turn of a body pull in which the source hands a chunk over
PullReads == pull # 0 /\ pos' # pos

\* C34: a body pull asks the source for a chunk only when the buffer holds
\* fewer than L bytes (L the length of CR LF "--" boundary), so that the
\* buffer then holds at most L - 1 bytes and the chunk
Envelope ==
  [][PullReads =>
       /\ valid < boundary.length
       /\ valid' <= (boundary.length - 1) + (pos' - pos)]_vars

\* the same with the L bytes that the safe start at valid = L lets stay
EnvelopeWide ==
  [][PullReads =>
       /\ valid <= boundary.length
       /\ valid' <= boundary.length + (pos' - pos)]_vars

\* a chunk has been appended to a buffer of L bytes during a body pull
EnvelopeFull ==
  pull # 0 /\ valid > (boundary.length - 1) + MaxChunk


\* the needle the generator is looking for
SearchNeedle == IF pc = "opening" THEN opening ELSE newLine

\* C35: while the generator looks for the opening delimiter or for the end
\* of a header block, a turn without a match discards nothing: the buffer
\* keeps its bytes and valid grows by the length of the chunk that was
\* appended; a chunk that does not fit under the memory option raises
\* MemoryLimit although the total is within the payload option
SearchKeeps ==
  [][(pc \in {"opening", "headers"}) =>
       \A f \in {Find(memory, start, SearchNeedle)} :
         IF f.found
           THEN pos' = pos /\ memory' = f.memory
           ELSE /\ Slice(memory', 0, valid) = memory
                /\ valid' = valid + (IF raised' = raised THEN pos' - pos
                                                         ELSE 0)
                /\ (valid + (pos' - pos) > options.memory) =>
                     \/ payloadSize' > options.payload
                     \/ raised' = Append(raised, "MemoryLimit")
     ]_vars

\* a header block that does not fit under the memory option: MemoryLimit
\* is raised before any part, with the total within the payload option
SearchKeepsWitness ==
  /\ pc = "error"
  /\ raised = <<"MemoryLimit">>
  /\ parts = <<>>
  /\ valid > 0
  /\ payloadSize > options.memory
  /\ payloadSize <= options.payload


\* the terminator CR LF "--" boundary is on the wire at index p
TerminatorAt(p) ==
  /\ p + boundary.length <= Len(wire)
  /\ Slice(wire, p, p + boundary.length) = boundary.bytes

\* body is a prefix of the wire bytes from index from on, and ends before
\* the first terminator in them
SafeFrom(body, from) ==
  /\ IsPrefix(body, Slice(wire, from, Len(wire)))
  /\ \A p \in from..Len(wire) : TerminatorAt(p) => Len(body) <= p - from

\* C36: what a body stream has emitted is at every moment a prefix of the
\* wire bytes that follow a header terminator (CR LF CR LF), and holds no
\* byte at or after the first terminator CR LF "--" boundary in them
PrefixSafe ==
  \A k \in 1..Len(parts) :
    \E from \in 4..Len(wire) :
      /\ Slice(wire, from - 4, from) = newLine.bytes
      /\ SafeFrom(parts[k].body, from)


\* the same for a consumer that reads a body, or leaves it alone, before
\* it asks for the next Part
PrefixSafeOrderly == Orderly => PrefixSafe


\* C37: a turn of a body pull enqueues at most one chunk, and never an
\* empty one; the pull is over only when it has enqueued a chunk, closed
\* the stream or raised an error; a closed stream gets no further chunk
PullOnce ==
  [][\A k \in 1..Len(parts) :
       \A p \in {parts[k]}, q \in {parts'[k]} :
         /\ q.chunks \in {p.chunks, p.chunks + 1}
         /\ q.chunks = p.chunks => q.body = p.body
         /\ q.chunks = p.chunks + 1 =>
              /\ pull = k
              /\ IsPrefix(p.body, q.body)
              /\ Len(q.body) > Len(p.body)
         /\ p.state = "closed" => q.body = p.body /\ q.state = "closed"
         /\ (pull = k /\ pull' = 0) =>
              \/ q.chunks = p.chunks + 1
              \/ p.state = "readable" /\ q.state \in {"closed", "errored"}
    ]_vars

\* a body that came out in two chunks over several reads of the source,
\* the second one with the close
PullOnceWitness ==
  /\ pull = 0
  /\ \E k \in 1..Len(parts) :
       /\ parts[k].chunks = 2
       /\ parts[k].state = "closed"
       /\ parts[k].endedBy = "match"
       /\ Len(parts[k].body) > 2


\* the indices of the buffer that the turn about to run may read: the
\* search of the generator, or the search and the probe of the pull (and
\* the search that follows a read that reports the end), and the check
\* after a part
Inspected ==
  PeekSeen(memory) \union
  IF pc \in {"opening", "headers"}
    THEN FindLoop(memory, SearchNeedle, start + SearchNeedle.end).seen
  ELSE IF pull # 0 /\ pc # "spin"
    THEN UNION {r.seen \union
                  (IF r.found \/ r.spin THEN {}
                   ELSE ProbeSeen(memory, boundary) \union
                        FindLoop(memory, boundary, boundary.end).seen) :
                r \in {FindLoop(memory, boundary, start + boundary.end)}}
  ELSE {}

\* C38: every byte of the buffer that the parser reads to take a decision
\* is at an index in [0, valid), in the full comparison, the skip lookup,
\* the probe and the check after a part: no index read is valid or above.
\* Below 0 the array has no byte; the one read there is memory[-1], by a
\* probe whose comparison has walked the whole buffer, and it is undefined
NoStaleReads ==
  \A i \in Inspected :
    /\ i < valid
    /\ i < 0 => (i = Undef /\ pull # 0 /\ i \in ProbeSeen(memory, boundary))

\* a search and a probe that have read the buffer up to its last valid
\* byte, with a byte compared at index 0
NoStaleReadsWitness ==
  /\ pull # 0
  /\ valid > boundary.length
  /\ valid - 1 \in ProbeSeen(memory, boundary)
  /\ {0, valid - 1} \subseteq Inspected


\* C39: the byte counter never goes down: every chunk the source hands over
\* adds its length to it, a chunk whose read raises PayloadLimit or
\* MemoryLimit too; once PayloadLimit has been raised, every later read
\* that returns a chunk raises it again
CounterMonotone ==
  [][/\ payloadSize' = payloadSize + (pos' - pos)
     /\ payloadSize' >= payloadSize
     /\ (pos' > pos /\ \E j \in 1..Len(raised) : raised[j] = "PayloadLimit")
          => Raises("PayloadLimit")
    ]_vars

\* PayloadLimit has been raised by two reads, the second one with the
\* counter above the option already
CounterMonotoneWitness ==
  /\ Len(raised) >= 2
  /\ raised[1] = "PayloadLimit"
  /\ raised[2] = "PayloadLimit"
  /\ payloadSize = pos
  /\ payloadSize > options.payload + 1


\* ------------------------------------------------ parameter claims

\* the segment holds an "="
HasEqual(seg) == IndexOf(seg, EQUAL, 0) # 0 - 1

\* the key of a segment: what is before its first "=", trimmed
KeyOf(seg) == Trim(Slice(seg, 0, IndexOf(seg, EQUAL, 0)))

\* the value of a segment: what is after its first "=", trimmed, without
\* the double quotes around it, percent-decoded unless the decoding fails
ValueOf(seg) ==
  LET raw == Trim(Slice(seg, IndexOf(seg, EQUAL, 0) + 1, Len(seg)))
      bare == IF Len(raw) >= 2 /\ raw[1] = QUOTE /\ raw[Len(raw)] = QUOTE
                THEN SubSeq(raw, 2, Len(raw) - 1)
                ELSE raw
  IN IF DecodeFrom(bare, 0, <<>>) = Absent THEN bare
     ELSE DecodeFrom(bare, 0, <<>>)[1]

\* the first segment with the key of segment i
FirstWith(segs, i) ==
  CHOOSE j \in 1..i :
    /\ HasEqual(segs[j]) /\ KeyOf(segs[j]) = KeyOf(segs[i])
    /\ \A h \in 1..(j - 1) :
         ~(HasEqual(segs[h]) /\ KeyOf(segs[h]) = KeyOf(segs[i]))

\* the result holds, under the key of segment i, the value of the first
\* segment with that key
KeptFirst(segs, i) ==
  Param(parts, KeyOf(segs[i])) = <<ValueOf(segs[FirstWith(segs, i)])>>

\* the loop goes forward and the cursor stays within the header; the
\* segments without "=" change nothing; every pair is from a segment
ParamsSteady ==
  /\ [][pc' = "parsed" \/ pos' > pos]_vars
  /\ [](pos <= Len(scenario.header) + 1)
  /\ [](pc = "parsed" =>
          /\ parts = HeaderParams(<<Join(SelectSeq(scenario.segments,
                                                   HasEqual))>>)
          /\ \A k \in 1..Len(parts) :
               \E i \in 1..Len(scenario.segments) :
                 /\ HasEqual(scenario.segments[i])
                 /\ parts[k].key = KeyOf(scenario.segments[i]))

\* C40: Header.params ends for every header value: each turn moves the
\* cursor forward.  A segment without "=" is skipped and changes nothing
\* of the pairs after it; under every key the result holds the value of
\* the first segment with that key, without the double quotes around it,
\* percent-decoded, or as it is when the decoding fails
ParamsRule ==
  /\ ParamsSteady
  /\ [](pc = "parsed" =>
          \A g \in {scenario.segments} : \A i \in 1..Len(g) :
            HasEqual(g[i]) => KeptFirst(g, i))

\* the same for the keys that are not the name of an inherited property
ParamsRuleOwn ==
  /\ ParamsSteady
  /\ [](pc = "parsed" =>
          \A g \in {scenario.segments} : \A i \in 1..Len(g) :
            (HasEqual(g[i]) /\ KeyOf(g[i]) \notin InheritedKeys)
              => KeptFirst(g, i))

\* a header value with a segment without "=", then a key twice, the first
\* time in quotes, has been parsed
ParamsRuleOwnWitness ==
  /\ pc = "parsed"
  /\ scenario.segments = <<BareSegment, QuotedSegment, PlainSegment>>
  /\ parts = <<[key |-> <<107>>, value |-> <<113>>]>>

====
